---------------------------- MODULE Spec2Model ----------------------------
(***************************************************************************)
(* Verification model of the vibetunnel terminal multiplexer core:          *)
(*   - the framed supervisor protocol (vibetunnel-pty/src/core/protocol.rs) *)
(*   - the native PTY session core    (native-pty/src/lib.rs)               *)
(***************************************************************************)
EXTENDS Integers, Sequences, FiniteSets, TLC

VARIABLES
  p_pc,        \* protocol scenario: "input" -> "encoded" -> "decoded"
  p_type,      \* msg_type handed to encode_message
  p_payload,   \* payload handed to encode_message
  p_frame,     \* Vec<u8> returned by encode_message
  p_result,    \* value returned by decode_message
  p_frames,    \* stream scenario: the frames written to the stream, in order
  p_decoded,   \* stream scenario: the frames the decode loop has produced so far
  manager,     \* PTY_MANAGER: [lock: holder of the global mutex, sessions: keys of the map]
  ps,          \* PtySession by id: the per-session mutexes, channels and callback
  pty,         \* by id: the child process and the kernel PTY (pending output, bytes written)
  rd,          \* by id: the reader thread (position in its loop and its locals)
  hist,        \* by id: what has been observed so far (chunks read, sink calls, pulls)
  c,           \* by caller thread: the NativePty call in progress and its locals
  fw,          \* a vt-pipe process: the forwarder or the title command
  det,         \* ActivityDetector::detect: its input and its result
  na,          \* napi-addon: its PTY_MANAGER, sessions, reader threads and callers
  io,          \* forward_io: the three forwarding tasks, their inputs and the channel
  sc,          \* a SocketClient reading the supervisor channel, and its peer
  term         \* a Terminal guard and the attributes of the user's terminal

protoVars == <<p_pc, p_type, p_payload, p_frame, p_result, p_frames, p_decoded>>

ptyVars == <<manager, ps, pty, rd, hist, c>>

moreVars == <<io, sc, term>>

otherVars == <<fw, det, na, moreVars>>

vars == <<p_pc, p_type, p_payload, p_frame, p_result, p_frames, p_decoded,
          manager, ps, pty, rd, hist, c,
          fw, det, na, io, sc, term>>

(***************************************************************************)
(* Byte strings.  A Rust byte slice may be longer than any integer TLC can  *)
(* represent, and encode_message narrows its length to 32 bits, so a byte   *)
(* string is kept run-length encoded: a sequence of runs [b, n], byte b     *)
(* repeated n times, with adjacent runs of different bytes.  A length is a  *)
(* two-digit number [hi, lo] in base Blk = 2^30, standing for               *)
(* hi * 2^30 + lo.                                                          *)
(***************************************************************************)
Blk == 2^30

Sz(n) == [hi |-> n \div Blk, lo |-> n % Blk]

SzAdd(x, y) ==
  LET lo == x.lo + y.lo
  IN  [hi |-> x.hi + y.hi + (lo \div Blk), lo |-> lo % Blk]

\* x - y, for y <= x
SzSub(x, y) ==
  IF x.lo >= y.lo
  THEN [hi |-> x.hi - y.hi, lo |-> x.lo - y.lo]
  ELSE [hi |-> x.hi - y.hi - 1, lo |-> (x.lo + Blk) - y.lo]

SzLess(x, y) == x.hi < y.hi \/ (x.hi = y.hi /\ x.lo < y.lo)

SzLeq(x, y) == x = y \/ SzLess(x, y)

SzZero == Sz(0)

Run(b, n) == [b |-> b, n |-> n]

\* concatenation, merging the runs that meet
Cat(x, y) ==
  IF x = <<>> THEN y
  ELSE IF y = <<>> THEN x
  ELSE IF x[Len(x)].b = y[1].b
       THEN SubSeq(x, 1, Len(x) - 1)
            \o <<Run(y[1].b, SzAdd(x[Len(x)].n, y[1].n))>>
            \o Tail(y)
       ELSE x \o y

RECURSIVE Bytes(_)
\* the byte string of an explicit sequence of bytes
Bytes(s) == IF s = <<>> THEN <<>> ELSE Cat(<<Run(s[1], Sz(1))>>, Bytes(Tail(s)))

RECURSIVE BLen(_)
\* slice.len()
BLen(x) == IF x = <<>> THEN SzZero ELSE SzAdd(x[1].n, BLen(Tail(x)))

RECURSIVE BTake(_, _)
\* x[..k]  (the whole of x when k exceeds its length)
BTake(x, k) ==
  IF x = <<>> \/ k = SzZero THEN <<>>
  ELSE IF SzLeq(x[1].n, k)
       THEN Cat(<<x[1]>>, BTake(Tail(x), SzSub(k, x[1].n)))
       ELSE <<Run(x[1].b, k)>>

RECURSIVE BDrop(_, _)
\* x[k..]  (empty when k exceeds its length)
BDrop(x, k) ==
  IF x = <<>> THEN <<>>
  ELSE IF k = SzZero THEN x
  ELSE IF SzLeq(x[1].n, k)
       THEN BDrop(Tail(x), SzSub(k, x[1].n))
       ELSE <<Run(x[1].b, SzSub(x[1].n, k))>> \o Tail(x)

\* x[i], 0-based, for i < x.len()
BAt(x, i) == BDrop(x, Sz(i))[1].b

\* x[from..to]
BSlice(x, from, to) == BTake(BDrop(x, from), SzSub(to, from))

(***************************************************************************)
(* Integer conversions of protocol.rs                                       *)
(***************************************************************************)
\* `payload.len() as u32`: the low 32 bits of a usize
AsU32(n) == [hi |-> n.hi % 4, lo |-> n.lo]

\* a put_u32 that writes the least significant byte first
U32ToBeBytes_LittleEndian(n) ==
  << n.lo % 256,
     (n.lo \div 256) % 256,
     (n.lo \div 65536) % 256,
     n.hi * 64 + (n.lo \div 16777216) >>

\* BufMut::put_u32: the four big-endian bytes of a u32
U32ToBeBytes(n) ==
  << n.hi * 64 + (n.lo \div 16777216),
     (n.lo \div 65536) % 256,
     (n.lo \div 256) % 256,
     n.lo % 256 >>

\* u32::from_be_bytes([b1, b2, b3, b4]) as usize
U32FromBeBytes(b1, b2, b3, b4) ==
  [hi |-> b1 \div 64,
   lo |-> (b1 % 64) * 16777216 + b2 * 65536 + b3 * 256 + b4]

(***************************************************************************)
(* protocol.rs: MessageType, encode_message, decode_message                 *)
(***************************************************************************)
MessageType ==
  {"StdinData", "ControlCmd", "StatusUpdate", "StdoutData", "SessionInfo", "Error"}

\* `msg_type as u8`
MessageTypeAsU8(t) ==
  CASE t = "StdinData"    -> 1
    [] t = "ControlCmd"   -> 2
    [] t = "StatusUpdate" -> 3
    [] t = "StdoutData"   -> 4
    [] t = "SessionInfo"  -> 5
    [] t = "Error"        -> 6

\* MessageType::try_from(value): Ok(type) or the unknown-message-type error
MessageTypeTryFrom(value) ==
  CASE value = 1 -> [ok |-> TRUE, type |-> "StdinData"]
    [] value = 2 -> [ok |-> TRUE, type |-> "ControlCmd"]
    [] value = 3 -> [ok |-> TRUE, type |-> "StatusUpdate"]
    [] value = 4 -> [ok |-> TRUE, type |-> "StdoutData"]
    [] value = 5 -> [ok |-> TRUE, type |-> "SessionInfo"]
    [] value = 6 -> [ok |-> TRUE, type |-> "Error"]
    [] OTHER     -> [ok |-> FALSE, type |-> "Unknown message type"]

\* the length field encode_message writes
EncodedLength(payload) == AsU32(BLen(payload))

encode_message(msg_type, payload) ==
  Cat(Bytes(<<MessageTypeAsU8(msg_type)>> \o U32ToBeBytes(EncodedLength(payload))),
      payload)

DecodeNone == [kind |-> "None"]
DecodeErr  == [kind |-> "Err"]
DecodeSome(t, payload, consumed) ==
  [kind |-> "Some", type |-> t, payload |-> payload, consumed |-> consumed]

\* a decode_message without the `data.len() < total_size` test
decode_message_NoLengthCheck(data) ==
  IF SzLess(BLen(data), Sz(5)) THEN DecodeNone
  ELSE
    LET msg_type   == MessageTypeTryFrom(BAt(data, 0))
        length     == U32FromBeBytes(BAt(data, 1), BAt(data, 2), BAt(data, 3), BAt(data, 4))
        total_size == SzAdd(Sz(5), length)
    IN  IF ~msg_type.ok THEN DecodeErr
        ELSE DecodeSome(msg_type.type, BSlice(data, Sz(5), total_size), total_size)

\* a decode_message that looks at the type byte only once the frame is complete
decode_message_LengthBeforeType(data) ==
  IF SzLess(BLen(data), Sz(5)) THEN DecodeNone
  ELSE
    LET msg_type   == MessageTypeTryFrom(BAt(data, 0))
        length     == U32FromBeBytes(BAt(data, 1), BAt(data, 2), BAt(data, 3), BAt(data, 4))
        total_size == SzAdd(Sz(5), length)
    IN  IF SzLess(BLen(data), total_size) THEN DecodeNone
        ELSE IF ~msg_type.ok THEN DecodeErr
        ELSE DecodeSome(msg_type.type, BSlice(data, Sz(5), total_size), total_size)

\* a decode_message that reports the payload length as the bytes consumed
decode_message_ConsumedOmitsHeader(data) ==
  IF SzLess(BLen(data), Sz(5)) THEN DecodeNone
  ELSE
    LET msg_type   == MessageTypeTryFrom(BAt(data, 0))
        length     == U32FromBeBytes(BAt(data, 1), BAt(data, 2), BAt(data, 3), BAt(data, 4))
        total_size == SzAdd(Sz(5), length)
    IN  IF ~msg_type.ok THEN DecodeErr
        ELSE IF SzLess(BLen(data), total_size) THEN DecodeNone
        ELSE DecodeSome(msg_type.type, BSlice(data, Sz(5), total_size), length)

\* usize is taken to be 64 bits wide, so `5 + length` cannot overflow
decode_message(data) ==
  IF SzLess(BLen(data), Sz(5)) THEN DecodeNone
  ELSE
    LET msg_type   == MessageTypeTryFrom(BAt(data, 0))
        length     == U32FromBeBytes(BAt(data, 1), BAt(data, 2), BAt(data, 3), BAt(data, 4))
        total_size == SzAdd(Sz(5), length)
    IN  IF ~msg_type.ok THEN DecodeErr
        ELSE IF SzLess(BLen(data), total_size) THEN DecodeNone
        ELSE DecodeSome(msg_type.type, BSlice(data, Sz(5), total_size), total_size)

(***************************************************************************)
(* native-pty/src/lib.rs: the PTY session core.                             *)
(*                                                                          *)
(* Threads are the callers of the NativePty methods and one reader thread   *)
(* per session.  Every mutex acquisition, every channel operation and every *)
(* system call on the PTY or the child is one step.  A mutex is the name of *)
(* the thread that holds it, or Free; the reader thread of session s is     *)
(* named s.                                                                 *)
(***************************************************************************)
Sessions == {"s1"}
Callers  == {"t1", "t2"}
Free     == "free"

QueueCap           == 100
ShutdownCap        == 1
BufSize            == 4096
MAX_BYTES_PER_CALL == 65536

MaxCalls   == 2      \* method calls per caller, NativePty::new aside
PayloadLen == 2      \* bytes per write() payload
MaxSinks   == 2      \* set_on_data() calls per session
MaxRetries == 3      \* max_retries of a direct connect_with_retry call
MaxStdin   == 2      \* stdin chunks a forwarder run forwards
MaxChunks  == 2      \* chunks the child prints during forward_io
SockCap    == 3      \* frame halves the socket's send buffer holds
MaxPeerFrames == 3   \* frames the supervisor writes to a SocketClient
MaxLog     == 2      \* bytes the supervisor appends to a log file
MaxReads   == 4      \* read_message calls on a SocketClient
MaxTermCalls == 4    \* enter_raw_mode and leave_raw_mode calls on a Terminal
NaOut      == 1      \* chunks the child of a napi-addon session writes
NaMaxCalls == 3      \* calls the JavaScript thread makes
RunRetries == 10     \* connect_with_retry(&socket_path, 10, 100)
RunDelayMs == 100
Delays     == {0, RunDelayMs}   \* delay_ms of a direct connect_with_retry call
MaxOver    == 2      \* chunks the child emits beyond the queue capacity

Min(a, b) == IF a < b THEN a ELSE b

\* A Vec<u8> read from the PTY is a sequence of slices [id, lo, hi]: bytes
\* lo..hi-1 of the id-th chunk the reader thread read.
Chunk(id, n) == <<[id |-> id, lo |-> 0, hi |-> n]>>

RECURSIVE DataLen(_)
DataLen(d) == IF d = <<>> THEN 0 ELSE (d[1].hi - d[1].lo) + DataLen(Tail(d))

PtySessionInit ==
  [ state         |-> "unborn",   \* unborn | creating | live | failed   (NativePty::new)
    master        |-> Free,
    writer        |-> Free,
    child         |-> Free,
    reader_thread |-> Free,
    handle        |-> FALSE,      \* reader_thread holds Some(JoinHandle)
    output        |-> <<>>,       \* the bounded output channel
    shutdown      |-> 0,          \* messages in the bounded shutdown channel
    data_callback |-> Free,
    callback      |-> 0 ]         \* the ThreadsafeFunction stored, 0 for None

CallInit ==
  [ op   |-> "none", pc |-> "done", s |-> "s1", arg |-> "",
    res  |-> "",                  \* the call's result
    eff  |-> <<>>,                \* what the call did to the registry, PTY, child, threads
    late |-> FALSE,               \* the call began after a destroy() of s had returned
    gone |-> FALSE,               \* the call began with s already out of the registry
    cb   |-> 0,                   \* set_on_data(): the ThreadsafeFunction built
    n    |-> 0,                   \* calls begun by this caller
    w    |-> 0,                   \* write(): bytes of the payload written
    acc  |-> <<>>,                \* read_all_output(): all_data
    out  |-> <<>>,                \* the Buffer returned
    poll_err |-> FALSE ]          \* destroy(): try_wait failed

HistInit ==
  [ read  |-> <<>>,      \* the chunks the reader thread read, in order
    sink  |-> <<>>,      \* <<callback, chunk id>> for every tsfn.call
    pulled |-> <<>>,     \* the slices read_output / read_all_output returned, in order
    dropped |-> <<>>,    \* ids of the chunks dropped on a full channel
    sinks |-> 0,         \* callbacks installed so far
    set_ret |-> 0,       \* the newest callback whose set_on_data has returned
    owed  |-> 0,         \* id of the latest chunk read while the session was
                         \* registered with a callback installed (0: none yet)
    destroyed |-> FALSE, \* some destroy() call has returned
    removed |-> FALSE ]  \* the destroy() call that removed the session has returned

\* Arc<PtySession> clones held by a caller between its lookup and its return
\* (write() clones the writer only).
HoldsArc(t, s) ==
  /\ c[t].s = s
  /\ c[t].op \in {"set_on_data", "resize", "kill", "read_output", "read_all_output",
                  "check_exit_status", "destroy"}
  /\ c[t].pc \notin {"done", "lock_mgr", "try_lock", "lookup"}

\* the last Arc<PtySession> is gone: Receiver and shutdown Sender are dropped
PtySessionDropped(s) ==
  /\ ps[s].state = "live"
  /\ s \notin manager.sessions
  /\ \A t \in Callers : ~HoldsArc(t, s)

\* output_sender and shutdown_receiver live in the reader thread's closure
ReaderGone(s) == rd[s].pc = "done"

Go(t, pc) == [c EXCEPT ![t].pc = pc]
GoEff(t, pc, e) == [c EXCEPT ![t].pc = pc, ![t].eff = Append(@, e)]
Return(t, r) == [c EXCEPT ![t].pc = "done", ![t].res = r]
ReturnEff(t, r, e) == [c EXCEPT ![t].pc = "done", ![t].res = r, ![t].eff = Append(@, e)]

(***************************************************************************)
(* The reader thread (lib.rs:180-245)                                       *)
(***************************************************************************)
\* a reader thread that never looks at the shutdown channel
ReaderTop_IgnoresShutdown(s) ==
  /\ rd[s].pc = "top"
  /\ rd' = [rd EXCEPT ![s].pc = "read"]
  /\ UNCHANGED <<protoVars, otherVars, manager, ps, pty, hist, c>>

\* loop top: shutdown_receiver.try_recv()
ReaderTop(s) ==
  /\ rd[s].pc = "top"
  /\ IF ps[s].shutdown > 0
     THEN /\ ps' = [ps EXCEPT ![s].shutdown = @ - 1]
          /\ rd' = [rd EXCEPT ![s].pc = "done"]
     ELSE /\ rd' = [rd EXCEPT ![s].pc = "read"]
          /\ UNCHANGED ps
  /\ UNCHANGED <<protoVars, otherVars, manager, pty, hist, c>>

\* reader.read(&mut buffer): Ok(n) with data pending, else Ok(0) or an error
\* once the child's side of the PTY is closed; blocks otherwise
ReaderRead(s) ==
  /\ rd[s].pc = "read"
  /\ \/ /\ pty[s].out # <<>>
        /\ LET avail == Head(pty[s].out)
               n     == Min(avail, BufSize)
               data  == Chunk(Len(hist[s].read) + 1, n)
           IN  /\ pty' = [pty EXCEPT ![s].out =
                            IF avail > n THEN <<avail - n>> \o Tail(@) ELSE Tail(@)]
               /\ rd' = [rd EXCEPT ![s].pc = "lock", ![s].data = data]
               /\ hist' = [hist EXCEPT
                            ![s].read = @ \o data,
                            ![s].owed = IF s \in manager.sessions /\ ps[s].callback # 0
                                        THEN data[1].id ELSE @]
     \/ /\ pty[s].out = <<>>
        /\ pty[s].proc # "running"
        /\ rd' = [rd EXCEPT ![s].pc = "done"]
        /\ UNCHANGED <<pty, hist>>
  /\ UNCHANGED <<protoVars, otherVars, manager, ps, c>>

\* Err(WouldBlock): sleep 1 ms, back to the loop top
ReaderWouldBlock(s) ==
  /\ rd[s].pc = "read"
  /\ pty[s].out = <<>>
  /\ pty[s].proc = "running"
  /\ rd' = [rd EXCEPT ![s].pc = "top"]
  /\ UNCHANGED <<protoVars, otherVars, manager, ps, pty, hist, c>>

\* PTY_MANAGER.lock()
ReaderLock(s) ==
  /\ rd[s].pc = "lock"
  /\ manager.lock = Free
  /\ manager' = [manager EXCEPT !.lock = s]
  /\ rd' = [rd EXCEPT ![s].pc = "lookup"]
  /\ UNCHANGED <<protoVars, otherVars, ps, pty, hist, c>>

\* a reader thread that spares the callback when the channel is full
ReaderLookup_SendsOnlyWhenFull(s) ==
  /\ rd[s].pc = "lookup"
  /\ s \in manager.sessions => ps[s].data_callback = Free
  /\ LET callback == IF s \in manager.sessions THEN ps[s].callback ELSE 0
     IN  rd' = [rd EXCEPT ![s].callback = callback,
                          ![s].pc = IF callback # 0 /\ Len(ps[s].output) < QueueCap
                                    THEN "call" ELSE "send"]
  /\ manager' = [manager EXCEPT !.lock = Free]
  /\ UNCHANGED <<protoVars, otherVars, ps, pty, hist, c>>

\* sessions.get(id).and_then(|session| session.data_callback.lock().clone()),
\* then the registry guard is dropped
ReaderLookup(s) ==
  /\ rd[s].pc = "lookup"
  /\ s \in manager.sessions => ps[s].data_callback = Free
  /\ LET callback == IF s \in manager.sessions THEN ps[s].callback ELSE 0
     IN  rd' = [rd EXCEPT ![s].callback = callback,
                          ![s].pc = IF callback # 0 THEN "call" ELSE "send"]
  /\ manager' = [manager EXCEPT !.lock = Free]
  /\ UNCHANGED <<protoVars, otherVars, ps, pty, hist, c>>

\* tsfn.call(data.clone(), NonBlocking)
ReaderCall(s) ==
  /\ rd[s].pc = "call"
  /\ hist' = [hist EXCEPT ![s].sink = Append(@, <<rd[s].callback, rd[s].data[1].id>>)]
  /\ rd' = [rd EXCEPT ![s].pc = "send"]
  /\ UNCHANGED <<protoVars, otherVars, manager, ps, pty, c>>

\* a try_send that makes room for the new chunk by evicting the oldest one
ReaderSend_EvictsOldest(s) ==
  /\ rd[s].pc = "send"
  /\ IF PtySessionDropped(s)
     THEN /\ rd' = [rd EXCEPT ![s].pc = "done", ![s].data = <<>>, ![s].callback = 0]
          /\ UNCHANGED <<ps, hist>>
     ELSE IF Len(ps[s].output) < QueueCap
     THEN /\ ps' = [ps EXCEPT ![s].output = Append(@, rd[s].data)]
          /\ rd' = [rd EXCEPT ![s].pc = "top", ![s].data = <<>>, ![s].callback = 0]
          /\ UNCHANGED hist
     ELSE /\ ps' = [ps EXCEPT ![s].output = Append(Tail(@), rd[s].data)]
          /\ hist' = [hist EXCEPT ![s].dropped = Append(@, ps[s].output[1][1].id)]
          /\ rd' = [rd EXCEPT ![s].pc = "top", ![s].data = <<>>, ![s].callback = 0]
  /\ UNCHANGED <<protoVars, otherVars, manager, pty, c>>

\* output_sender.try_send(data)
ReaderSend(s) ==
  /\ rd[s].pc = "send"
  /\ IF PtySessionDropped(s)
     THEN /\ rd' = [rd EXCEPT ![s].pc = "done", ![s].data = <<>>, ![s].callback = 0]
          /\ UNCHANGED <<ps, hist>>
     ELSE IF Len(ps[s].output) < QueueCap
     THEN /\ ps' = [ps EXCEPT ![s].output = Append(@, rd[s].data)]
          /\ rd' = [rd EXCEPT ![s].pc = "top", ![s].data = <<>>, ![s].callback = 0]
          /\ UNCHANGED hist
     ELSE /\ hist' = [hist EXCEPT ![s].dropped = Append(@, rd[s].data[1].id)]
          /\ rd' = [rd EXCEPT ![s].pc = "top", ![s].data = <<>>, ![s].callback = 0]
          /\ UNCHANGED ps
  /\ UNCHANGED <<protoVars, otherVars, manager, pty, c>>

\* the child exits by itself or from a signal; its exit status waits to be collected
ChildExit(s) ==
  /\ pty[s].proc = "running"
  /\ pty' = [pty EXCEPT ![s].proc = "exited"]
  /\ UNCHANGED <<protoVars, otherVars, manager, ps, rd, hist, c>>

(***************************************************************************)
(* The NativePty methods (lib.rs:87-636)                                    *)
(***************************************************************************)
Ops == {"set_on_data", "write", "resize", "kill", "read_output", "read_all_output",
        "check_exit_status", "destroy"}

FirstPc(op) ==
  CASE op = "new"             -> "n_spawn"
    [] op = "read_all_output" -> "try_lock"
    [] OTHER                  -> "lock_mgr"

\* a caller enters a method of the NativePty of session s; set_on_data builds its
\* ThreadsafeFunction before it looks the session up (the N-API conversions of
\* the arguments are taken to succeed)
Call(t, op, s, arg) ==
  /\ c[t].pc = "done"
  /\ IF op = "new" THEN ps[s].state = "unborn" ELSE ps[s].state = "live"
  /\ op # "new" => c[t].n < MaxCalls
  /\ op = "set_on_data" => hist[s].sinks < MaxSinks
  /\ c' = [c EXCEPT ![t] =
            [CallInit EXCEPT !.op = op, !.pc = FirstPc(op), !.s = s, !.arg = arg,
                             !.late = hist[s].destroyed,
                             !.gone = ps[s].state = "live" /\ s \notin manager.sessions,
                             !.cb = IF op = "set_on_data" THEN hist[s].sinks + 1 ELSE 0,
                             !.n = IF op = "new" THEN c[t].n ELSE c[t].n + 1]]
  /\ ps' = IF op = "new" THEN [ps EXCEPT ![s].state = "creating"] ELSE ps
  /\ hist' = IF op = "set_on_data" THEN [hist EXCEPT ![s].sinks = @ + 1] ELSE hist
  /\ UNCHANGED <<protoVars, otherVars, manager, pty, rd>>

\* PTY_MANAGER.lock()
LockManager(t) ==
  /\ c[t].pc = "lock_mgr"
  /\ manager.lock = Free
  /\ manager' = [manager EXCEPT !.lock = t]
  /\ c' = Go(t, "lookup")
  /\ UNCHANGED <<protoVars, otherVars, ps, pty, rd, hist>>

\* a read_all_output that takes the registry lock with lock()
TryLockManager_Waits(t) ==
  /\ c[t].pc = "try_lock"
  /\ manager.lock = Free
  /\ manager' = [manager EXCEPT !.lock = t]
  /\ c' = Go(t, "lookup")
  /\ UNCHANGED <<protoVars, otherVars, ps, pty, rd, hist>>

\* read_all_output: PTY_MANAGER.try_lock(), Ok(None) when the lock is held
TryLockManager(t) ==
  /\ c[t].pc = "try_lock"
  /\ IF manager.lock = Free
     THEN /\ manager' = [manager EXCEPT !.lock = t]
          /\ c' = Go(t, "lookup")
     ELSE /\ c' = Return(t, "None")
          /\ UNCHANGED manager
  /\ UNCHANGED <<protoVars, otherVars, ps, pty, rd, hist>>

\* the registry guard is dropped at the end of the lookup block
ReleaseManager(t) == [manager EXCEPT !.lock = Free]

\* sessions.get(id).cloned() of set_on_data, write, resize, kill, read_output,
\* read_all_output and check_exit_status
NextPc(op) ==
  CASE op = "set_on_data"       -> "cb_lock"
    [] op = "write"             -> "w_lock"
    [] op = "resize"            -> "m_lock"
    [] op = "kill"              -> "k_signal"
    [] op = "read_output"       -> "recv"
    [] op = "read_all_output"   -> "drain"
    [] op = "check_exit_status" -> "c_lock"

\* a lookup whose registry guard write() keeps while it goes on to the PTY
Lookup_KeepsGuardInWrite(t) ==
  /\ c[t].pc = "lookup"
  /\ c[t].op \in Ops \ {"destroy"}
  /\ manager' = IF c[t].op = "write" /\ c[t].s \in manager.sessions
                THEN manager
                ELSE ReleaseManager(t)
  /\ c' = IF c[t].s \in manager.sessions
          THEN Go(t, NextPc(c[t].op))
          ELSE Return(t, "SessionNotFound")
  /\ UNCHANGED <<protoVars, otherVars, ps, pty, rd, hist>>

Lookup(t) ==
  /\ c[t].pc = "lookup"
  /\ c[t].op \in Ops \ {"destroy"}
  /\ manager' = ReleaseManager(t)
  /\ c' = IF c[t].s \in manager.sessions
          THEN Go(t, NextPc(c[t].op))
          ELSE Return(t, "SessionNotFound")
  /\ UNCHANGED <<protoVars, otherVars, ps, pty, rd, hist>>

---------------------------------------------------------------------------
\* NativePty::new up to thread::spawn: openpty, spawn_command, take_writer,
\* the channels, try_clone_reader; any of them may fail
NewSpawn(t) ==
  /\ c[t].pc = "n_spawn"
  /\ LET s == c[t].s
     IN  \/ /\ pty' = [pty EXCEPT ![s].proc = "running"]
            /\ rd' = [rd EXCEPT ![s].pc = "top"]
            /\ c' = GoEff(t, "lock_mgr", "spawn")
            /\ UNCHANGED ps
         \/ /\ ps' = [ps EXCEPT ![s].state = "failed"]
            /\ c' = Return(t, "Err")
            /\ UNCHANGED <<pty, rd>>
  /\ UNCHANGED <<protoVars, otherVars, manager, hist>>

\* manager.sessions.insert(session_id, Arc::new(PtySession {..}))
NewInsert(t) ==
  /\ c[t].pc = "lookup"
  /\ c[t].op = "new"
  /\ manager' = [manager EXCEPT !.lock = Free, !.sessions = @ \cup {c[t].s}]
  /\ ps' = [ps EXCEPT ![c[t].s].state = "live", ![c[t].s].handle = TRUE]
  /\ c' = ReturnEff(t, "Ok", "insert")
  /\ UNCHANGED <<protoVars, otherVars, pty, rd, hist>>

---------------------------------------------------------------------------
\* set_on_data: session.data_callback.lock()
SetOnDataLock(t) ==
  /\ c[t].pc = "cb_lock"
  /\ ps[c[t].s].data_callback = Free
  /\ ps' = [ps EXCEPT ![c[t].s].data_callback = t]
  /\ c' = Go(t, "cb_store")
  /\ UNCHANGED <<protoVars, otherVars, manager, pty, rd, hist>>

\* a set_on_data that goes back to the registry with the callback guard held
SetOnDataStore_RelocksRegistry(t) ==
  /\ c[t].pc = "cb_store"
  /\ c' = Go(t, "lock_mgr")
  /\ UNCHANGED <<protoVars, otherVars, manager, ps, pty, rd, hist>>

\* *callback_lock = Some(tsfn)
SetOnDataStore(t) ==
  /\ c[t].pc = "cb_store"
  /\ ps' = [ps EXCEPT ![c[t].s].callback = c[t].cb, ![c[t].s].data_callback = Free]
  /\ hist' = [hist EXCEPT ![c[t].s].set_ret = c[t].cb]
  /\ c' = ReturnEff(t, "Ok", "store")
  /\ UNCHANGED <<protoVars, otherVars, manager, pty, rd>>

---------------------------------------------------------------------------
\* a write that goes on to the PTY without waiting for the writer mutex
WriteLock_NoWait(t) ==
  /\ c[t].pc = "w_lock"
  /\ ps' = [ps EXCEPT ![c[t].s].writer = t]
  /\ c' = Go(t, "w_write")
  /\ UNCHANGED <<protoVars, otherVars, manager, pty, rd, hist>>

\* write: writer.lock()
WriteLock(t) ==
  /\ c[t].pc = "w_lock"
  /\ ps[c[t].s].writer = Free
  /\ ps' = [ps EXCEPT ![c[t].s].writer = t]
  /\ c' = Go(t, "w_write")
  /\ UNCHANGED <<protoVars, otherVars, manager, pty, rd, hist>>

\* writer_lock.write_all(&data): one write(2) per step, or an I/O error
WriteAll(t) ==
  /\ c[t].pc = "w_write"
  /\ LET s == c[t].s
     IN  \/ /\ pty' = [pty EXCEPT ![s].in = Append(@, <<t, c[t].n, c[t].w + 1>>)]
            /\ c' = [c EXCEPT ![t].w = @ + 1,
                              ![t].eff = IF c[t].w = 0 THEN Append(@, "write") ELSE @,
                              ![t].pc = IF c[t].w + 1 = PayloadLen THEN "w_flush" ELSE "w_write"]
            /\ UNCHANGED ps
         \/ /\ ps' = [ps EXCEPT ![s].writer = Free]
            /\ c' = Return(t, "IoFailed")
            /\ UNCHANGED pty
  /\ UNCHANGED <<protoVars, otherVars, manager, rd, hist>>

\* writer_lock.flush(), then the guard is dropped
WriteFlush(t) ==
  /\ c[t].pc = "w_flush"
  /\ LET s == c[t].s
     IN  \/ /\ pty' = [pty EXCEPT ![s].in = Append(@, <<t, c[t].n, 0>>)]
            /\ c' = ReturnEff(t, "Ok", "flush")
         \/ /\ c' = Return(t, "IoFailed")
            /\ UNCHANGED pty
  /\ ps' = [ps EXCEPT ![c[t].s].writer = Free]
  /\ UNCHANGED <<protoVars, otherVars, manager, rd, hist>>

---------------------------------------------------------------------------
\* resize: session.master.lock()
ResizeLock(t) ==
  /\ c[t].pc = "m_lock"
  /\ ps[c[t].s].master = Free
  /\ ps' = [ps EXCEPT ![c[t].s].master = t]
  /\ c' = Go(t, "m_resize")
  /\ UNCHANGED <<protoVars, otherVars, manager, pty, rd, hist>>

\* master_lock.resize(PtySize {..})
ResizeMaster(t) ==
  /\ c[t].pc = "m_resize"
  /\ \/ c' = ReturnEff(t, "Ok", "resize")
     \/ c' = ReturnEff(t, "IoFailed", "resize")
  /\ ps' = [ps EXCEPT ![c[t].s].master = Free]
  /\ UNCHANGED <<protoVars, otherVars, manager, pty, rd, hist>>

---------------------------------------------------------------------------
\* kill (unix): signal::kill(Pid::from_raw(self.pid), signal); the pid names the
\* child until its exit status has been collected; after that the kernel
\* finds no such process (ESRCH, "Kill failed"), unless it has given the pid
\* to a new process, which then gets the signal
KillSignal(t) ==
  /\ c[t].pc = "k_signal"
  /\ \E r \in IF pty[c[t].s].proc \in {"running", "exited"}
               THEN {"Ok"}
               ELSE {"Ok", "IoFailed"} :
       c' = ReturnEff(t, r, "signal")
  /\ UNCHANGED <<protoVars, otherVars, manager, ps, pty, rd, hist>>

---------------------------------------------------------------------------
\* a read_output that returns the head of the channel and leaves it queued
ReadOutputRecv_Peeks(t) ==
  /\ c[t].pc = "recv"
  /\ LET s == c[t].s
     IN  IF ps[s].output # <<>>
         THEN /\ c' = [c EXCEPT ![t].pc = "done", ![t].res = "Some",
                                ![t].out = Head(ps[s].output),
                                ![t].eff = Append(@, "recv")]
              /\ hist' = [hist EXCEPT ![s].pulled = @ \o Head(ps[s].output)]
         ELSE /\ c' = Return(t, IF ReaderGone(s) THEN "ReaderGone" ELSE "None")
              /\ UNCHANGED hist
  /\ UNCHANGED <<protoVars, otherVars, manager, ps, pty, rd>>

\* a read_output whose try_recv waits like recv_timeout when the channel is empty
ReadOutputRecv_AlwaysWaits(t) ==
  /\ c[t].pc \in {"recv", "recv_wait"}
  /\ LET s == c[t].s
     IN  IF ps[s].output # <<>>
         THEN /\ ps' = [ps EXCEPT ![s].output = Tail(@)]
              /\ c' = [c EXCEPT ![t].pc = "done", ![t].res = "Some",
                                ![t].out = Head(ps[s].output),
                                ![t].eff = Append(@, "recv")]
              /\ hist' = [hist EXCEPT ![s].pulled = @ \o Head(ps[s].output)]
         ELSE /\ c' = IF ReaderGone(s) THEN Return(t, "ReaderGone")
                      ELSE IF c[t].pc = "recv" THEN Go(t, "recv_wait")
                      ELSE Return(t, "None")
              /\ UNCHANGED <<ps, hist>>
  /\ UNCHANGED <<protoVars, otherVars, manager, pty, rd>>

\* read_output: output_receiver.try_recv() for a call without a timeout,
\* recv_timeout(timeout) for a call with one (arg = "timeout").  try_recv
\* returns at once.  recv_timeout returns at once when a chunk is queued or
\* the Sender is gone; otherwise the caller sleeps at "recv_wait" until a
\* chunk arrives, the Sender is dropped, or the timeout elapses, whichever
\* the scheduler lets happen first.
ReadOutputRecv(t) ==
  /\ c[t].pc \in {"recv", "recv_wait"}
  /\ LET s == c[t].s
     IN  IF ps[s].output # <<>>
         THEN /\ ps' = [ps EXCEPT ![s].output = Tail(@)]
              /\ c' = [c EXCEPT ![t].pc = "done", ![t].res = "Some",
                                ![t].out = Head(ps[s].output),
                                ![t].eff = Append(@, "recv")]
              /\ hist' = [hist EXCEPT ![s].pulled = @ \o Head(ps[s].output)]
         ELSE /\ c' = IF ReaderGone(s) THEN Return(t, "ReaderGone")
                      ELSE IF c[t].pc = "recv" /\ c[t].arg = "timeout" THEN Go(t, "recv_wait")
                      ELSE Return(t, "None")
              /\ UNCHANGED <<ps, hist>>
  /\ UNCHANGED <<protoVars, otherVars, manager, pty, rd>>

---------------------------------------------------------------------------
\* read_all_output: one turn of `while bytes_read < MAX_BYTES_PER_CALL`, and the
\* return when the loop ends
ReadAllOutputDrain(t) ==
  /\ c[t].pc = "drain"
  /\ LET s == c[t].s
         bytes_read == DataLen(c[t].acc)
     IN  IF bytes_read < MAX_BYTES_PER_CALL /\ ps[s].output # <<>>
         THEN /\ ps' = [ps EXCEPT ![s].output = Tail(@)]
              /\ c' = [c EXCEPT ![t].acc = @ \o Head(ps[s].output),
                                ![t].eff = IF c[t].acc = <<>> THEN Append(@, "recv") ELSE @]
              /\ UNCHANGED hist
         ELSE /\ c' = [c EXCEPT ![t].pc = "done",
                                ![t].res = IF c[t].acc = <<>> THEN "None" ELSE "Some",
                                ![t].out = c[t].acc,
                                ![t].acc = <<>>]
              /\ hist' = [hist EXCEPT ![s].pulled = @ \o c[t].acc]
              /\ UNCHANGED ps
  /\ UNCHANGED <<protoVars, otherVars, manager, pty, rd>>

---------------------------------------------------------------------------
\* check_exit_status: session.child.lock()
CheckExitLock(t) ==
  /\ c[t].pc = "c_lock"
  /\ ps[c[t].s].child = Free
  /\ ps' = [ps EXCEPT ![c[t].s].child = t]
  /\ c' = Go(t, "c_wait")
  /\ UNCHANGED <<protoVars, otherVars, manager, pty, rd, hist>>

\* child_lock.try_wait(): the exit status (collected now or earlier), still
\* running, or an error
CheckExitTryWait(t) ==
  /\ c[t].pc = "c_wait"
  /\ LET s == c[t].s
     IN  \/ /\ pty[s].proc = "running"
            /\ c' = ReturnEff(t, "None", "poll")
            /\ UNCHANGED pty
         \/ /\ pty[s].proc \in {"exited", "reaped"}
            /\ pty' = [pty EXCEPT ![s].proc = "reaped"]
            /\ c' = ReturnEff(t, "Some", "poll")
         \/ /\ c' = ReturnEff(t, "IoFailed", "poll")
            /\ UNCHANGED pty
  /\ ps' = [ps EXCEPT ![c[t].s].child = Free]
  /\ UNCHANGED <<protoVars, otherVars, manager, rd, hist>>

---------------------------------------------------------------------------
\* a destroy() call returns
DestroyReturn(t, removed) ==
  [hist EXCEPT ![c[t].s].destroyed = TRUE, ![c[t].s].removed = @ \/ removed]

\* a destroy() that looks the session up but leaves it in the registry
DestroyRemove_KeepsEntry(t) ==
  /\ c[t].pc = "lookup"
  /\ c[t].op = "destroy"
  /\ manager' = ReleaseManager(t)
  /\ IF c[t].s \in manager.sessions
     THEN /\ c' = GoEff(t, "d_signal", "remove")
          /\ UNCHANGED hist
     ELSE /\ c' = Return(t, "Ok")
          /\ hist' = DestroyReturn(t, FALSE)
  /\ UNCHANGED <<protoVars, otherVars, ps, pty, rd>>

\* a destroy() that tears down whether or not it found the session
DestroyRemove_AlwaysTearsDown(t) ==
  /\ c[t].pc = "lookup"
  /\ c[t].op = "destroy"
  /\ manager' = [manager EXCEPT !.lock = Free, !.sessions = @ \ {c[t].s}]
  /\ c' = GoEff(t, "d_signal", "remove")
  /\ UNCHANGED <<protoVars, otherVars, ps, pty, rd, hist>>

\* destroy: manager.sessions.remove(&self.session_id)
DestroyRemove(t) ==
  /\ c[t].pc = "lookup"
  /\ c[t].op = "destroy"
  /\ IF c[t].s \in manager.sessions
     THEN /\ manager' = [manager EXCEPT !.lock = Free, !.sessions = @ \ {c[t].s}]
          /\ c' = GoEff(t, "d_signal", "remove")
          /\ UNCHANGED hist
     ELSE /\ manager' = ReleaseManager(t)
          /\ c' = Return(t, "Ok")
          /\ hist' = DestroyReturn(t, FALSE)
  /\ UNCHANGED <<protoVars, otherVars, ps, pty, rd>>

\* session.shutdown_sender.send(()): a blocking send on a channel of capacity
\* 1, Err (ignored) when the reader thread has dropped the receiver
DestroySignal(t) ==
  /\ c[t].pc = "d_signal"
  /\ LET s == c[t].s
     IN  /\ ReaderGone(s) \/ ps[s].shutdown < ShutdownCap
         /\ ps' = IF ReaderGone(s) THEN ps ELSE [ps EXCEPT ![s].shutdown = @ + 1]
  /\ c' = GoEff(t, "d_lock", "signal")
  /\ UNCHANGED <<protoVars, otherVars, manager, pty, rd, hist>>

\* session.child.lock()
DestroyLock(t) ==
  /\ c[t].pc = "d_lock"
  /\ ps[c[t].s].child = Free
  /\ ps' = [ps EXCEPT ![c[t].s].child = t]
  /\ c' = Go(t, "d_poll")
  /\ UNCHANGED <<protoVars, otherVars, manager, pty, rd, hist>>

\* a destroy() that kills the child whatever try_wait says
DestroyPoll_KillsRegardless(t) ==
  /\ c[t].pc = "d_poll"
  /\ LET s == c[t].s
     IN  \/ /\ pty[s].proc = "running"
            /\ c' = GoEff(t, "d_kill", "poll")
            /\ UNCHANGED pty
         \/ /\ pty[s].proc \in {"exited", "reaped"}
            /\ pty' = [pty EXCEPT ![s].proc = "reaped"]
            /\ c' = GoEff(t, "d_kill", "poll")
         \/ /\ c' = [GoEff(t, "d_wait", "poll") EXCEPT ![t].poll_err = TRUE]
            /\ UNCHANGED pty
  /\ UNCHANGED <<protoVars, otherVars, manager, ps, rd, hist>>

\* child_lock.try_wait()
DestroyPoll(t) ==
  /\ c[t].pc = "d_poll"
  /\ LET s == c[t].s
     IN  \/ /\ pty[s].proc = "running"
            /\ c' = GoEff(t, "d_kill", "poll")
            /\ UNCHANGED pty
         \/ /\ pty[s].proc \in {"exited", "reaped"}
            /\ pty' = [pty EXCEPT ![s].proc = "reaped"]
            /\ c' = GoEff(t, "d_wait", "poll")
         \/ /\ c' = [GoEff(t, "d_wait", "poll") EXCEPT ![t].poll_err = TRUE]
            /\ UNCHANGED pty
  /\ UNCHANGED <<protoVars, otherVars, manager, ps, rd, hist>>

\* child_lock.kill(): on Ok the child is dead or about to die, on Err it is untouched
DestroyKill(t) ==
  /\ c[t].pc = "d_kill"
  /\ LET s == c[t].s
     IN  \/ pty' = [pty EXCEPT ![s].proc = IF @ = "running" THEN "exited" ELSE @]
         \/ UNCHANGED pty
  /\ c' = GoEff(t, "d_wait", "kill")
  /\ UNCHANGED <<protoVars, otherVars, manager, ps, rd, hist>>

\* child_lock.wait(): blocks until the child has exited; after a failed
\* try_wait it may fail at once as well.  The child guard is dropped.
DestroyWait(t) ==
  /\ c[t].pc = "d_wait"
  /\ LET s == c[t].s
     IN  \/ /\ pty[s].proc # "running"
            /\ pty' = [pty EXCEPT ![s].proc = "reaped"]
         \/ /\ c[t].poll_err
            /\ UNCHANGED pty
  /\ ps' = [ps EXCEPT ![c[t].s].child = Free]
  /\ c' = GoEff(t, "d_tlock", "wait")
  /\ UNCHANGED <<protoVars, otherVars, manager, rd, hist>>

\* session.reader_thread.lock() and thread_lock.take()
DestroyTake(t) ==
  /\ c[t].pc = "d_tlock"
  /\ LET s == c[t].s
     IN  /\ ps[s].reader_thread = Free
         /\ IF ps[s].handle
            THEN /\ ps' = [ps EXCEPT ![s].reader_thread = t, ![s].handle = FALSE]
                 /\ c' = Go(t, "d_join")
                 /\ UNCHANGED hist
            ELSE /\ c' = Return(t, "Ok")
                 /\ hist' = DestroyReturn(t, TRUE)
                 /\ UNCHANGED ps
  /\ UNCHANGED <<protoVars, otherVars, manager, pty, rd>>

\* a destroy() that drops the JoinHandle instead of joining
DestroyJoin_Detaches(t) ==
  /\ c[t].pc = "d_join"
  /\ ps' = [ps EXCEPT ![c[t].s].reader_thread = Free]
  /\ c' = ReturnEff(t, "Ok", "join")
  /\ hist' = DestroyReturn(t, TRUE)
  /\ UNCHANGED <<protoVars, otherVars, manager, pty, rd>>

\* thread.join(): blocks until the reader thread has finished
DestroyJoin(t) ==
  /\ c[t].pc = "d_join"
  /\ ReaderGone(c[t].s)
  /\ ps' = [ps EXCEPT ![c[t].s].reader_thread = Free]
  /\ c' = ReturnEff(t, "Ok", "join")
  /\ hist' = DestroyReturn(t, TRUE)
  /\ UNCHANGED <<protoVars, otherVars, manager, pty, rd>>

(***************************************************************************)
(* vt-pipe: the forwarder and the title command.  The program exists in two *)
(* variants, crates/vt-pipe ("crates") and web/vt-pipe ("web"); fw is one   *)
(* vt-pipe process of either variant.                                       *)
(***************************************************************************)
Variants == {"crates", "web"}

\* session.json of the session directory
NoFile == [exists |-> FALSE, name |-> "", status |-> ""]

SessionJson(name, status) == [exists |-> TRUE, name |-> name, status |-> status]

\* the entries of fw.log: a UnixStream::connect that succeeded ("ok") or failed
\* ("err"), and a tokio::time::sleep of ms milliseconds ("sleep")
Connected == [ev |-> "ok", ms |-> 0]

Refused == [ev |-> "err", ms |-> 0]

Slept(ms) == [ev |-> "sleep", ms |-> ms]

\* a frame written to the socket: encode_message(type, payload)
StdinFrame == [type |-> "StdinData", cmd |-> "", title |-> ""]

UpdateTitleFrame(title) == [type |-> "ControlCmd", cmd |-> "update-title", title |-> title]

\* a vt-pipe process that has not yet chosen what to do; `file` is session.json
\* as the process finds it
FwIdle(v, file) ==
  [variant     |-> v,
   op          |-> "idle",    \* "connect_with_retry", "run", "update_session_title"
   pc          |-> "idle",
   max_retries |-> 0,         \* connect_with_retry: max_retries
   delay_ms    |-> 0,         \* connect_with_retry: delay_ms
   attempt     |-> 0,         \* connect_with_retry: the loop variable
   log         |-> <<>>,      \* connection attempts and sleeps so far
   client      |-> FALSE,     \* a SocketClient is held
   raw         |-> FALSE,     \* the terminal is in raw mode
   to_pty      |-> 0,         \* stdin chunks written to the PTY
   sent        |-> <<>>,      \* frames written to the socket
   json        |-> file,      \* session.json now
   json0       |-> file,      \* session.json when the process started
   writes      |-> 0,         \* fs::write calls on session.json
   stdout_log  |-> 0,         \* bytes in the session's stdout file
   stdin_log   |-> 0,         \* bytes in the session's stdin file
   title       |-> "",        \* update_session_title: new_title
   res         |-> "none",    \* "Ok", "Err", "panic"
   err         |-> ""]        \* the step the error came from

\* FileSessionStore::update_session is create_session: after session.json it
\* writes "" to the stdout and stdin files (crates); Session::save writes
\* session.json only (web)
UpdateSession(f) ==
  IF f.variant = "crates" THEN [f EXCEPT !.stdout_log = 0, !.stdin_log = 0] ELSE f

FwRet(f, res, err) == [f EXCEPT !.pc = "done", !.res = res, !.err = err]

\* what the caller of the connection attempt does with its result
AfterConnect(f, ok) ==
  CASE f.op = "run" ->
         \* crates: Err(e) => { eprintln!(..); None };  web: .context(..)?
         IF ok \/ f.variant = "crates" THEN [f EXCEPT !.pc = "raw"]
         ELSE FwRet(f, "Err", "connect")
    [] f.op = "update_session_title" ->
         IF ok THEN [f EXCEPT !.pc = "send_title"] ELSE FwRet(f, "Err", "connect")
    [] OTHER ->
         IF ok THEN FwRet(f, "Ok", "") ELSE FwRet(f, "Err", "connect")

\* connect_with_retry(path, n, d) called on its own
CallConnectWithRetry(n, d) ==
  /\ fw.op = "idle"
  /\ fw' = [fw EXCEPT !.op = "connect_with_retry", !.pc = "attempt",
                      !.max_retries = n, !.delay_ms = d, !.attempt = 0]
  /\ UNCHANGED <<protoVars, ptyVars, det, na, moreVars>>

\* a loop that sleeps after every failed attempt, the last one included
ConnectAttempt_SleepsAfterLast ==
  /\ fw.pc = "attempt"
  /\ fw.attempt < fw.max_retries
  /\ \E ok \in BOOLEAN :
       fw' = IF ok
               THEN AfterConnect([fw EXCEPT !.log = Append(@, Connected), !.client = TRUE], TRUE)
               ELSE [fw EXCEPT !.log = Append(@, Refused), !.pc = "sleep"]
  /\ UNCHANGED <<protoVars, ptyVars, det, na, moreVars>>

\* one iteration of `for attempt in 0..max_retries`: UnixStream::connect; on
\* success return the client; on failure sleep if attempt < max_retries - 1,
\* otherwise return the error (crates) or fall out of the loop (web)
ConnectAttempt ==
  /\ fw.pc = "attempt"
  /\ fw.attempt < fw.max_retries
  /\ \E ok \in BOOLEAN :
       fw' = IF ok
               THEN AfterConnect([fw EXCEPT !.log = Append(@, Connected), !.client = TRUE], TRUE)
               ELSE LET f == [fw EXCEPT !.log = Append(@, Refused)]
                    IN  IF fw.attempt < fw.max_retries - 1
                          THEN [f EXCEPT !.pc = "sleep"]
                          ELSE IF fw.variant = "crates"
                                 THEN AfterConnect(f, FALSE)
                                 ELSE [f EXCEPT !.attempt = @ + 1]
  /\ UNCHANGED <<protoVars, ptyVars, det, na, moreVars>>

\* tokio::time::sleep(Duration::from_millis(delay_ms)), then the next iteration
ConnectSleep ==
  /\ fw.pc = "sleep"
  /\ fw' = [fw EXCEPT !.log = Append(@, Slept(fw.delay_ms)), !.attempt = @ + 1,
                      !.pc = "attempt"]
  /\ UNCHANGED <<protoVars, ptyVars, det, na, moreVars>>

\* the loop is over: unreachable!() (crates), Err(last_error.unwrap_or_else(..)) (web)
ConnectLoopEnd ==
  /\ fw.pc = "attempt"
  /\ fw.attempt >= fw.max_retries
  /\ fw' = IF fw.variant = "crates" THEN FwRet(fw, "panic", "unreachable")
                                    ELSE AfterConnect(fw, FALSE)
  /\ UNCHANGED <<protoVars, ptyVars, det, na, moreVars>>

ConnectSteps == ConnectAttempt \/ ConnectSleep \/ ConnectLoopEnd

\* Forwarder::run for a new session
CallRun ==
  /\ fw.op = "idle"
  /\ ~fw.json.exists
  /\ fw' = [fw EXCEPT !.op = "run", !.pc = "create_pty"]
  /\ UNCHANGED <<protoVars, ptyVars, det, na, moreVars>>

\* create_pty(&config)? (crates); openpty and spawn_command (web)
RunCreatePty ==
  /\ fw.pc = "create_pty"
  /\ \E ok \in BOOLEAN :
       fw' = IF ok THEN [fw EXCEPT !.pc = "create_session"] ELSE FwRet(fw, "Err", "pty")
  /\ UNCHANGED <<protoVars, ptyVars, det, na, moreVars>>

\* store.create_session(..)? (crates), Session::create(..)? (web): session.json
\* is written with status "running"; then connect_with_retry(&socket_path, 10, 100)
RunCreateSession ==
  /\ fw.pc = "create_session"
  /\ \E ok \in BOOLEAN :
       fw' = IF ok
               THEN [fw EXCEPT !.json = SessionJson("cmd", "running"), !.writes = @ + 1,
                               !.stdout_log = 0, !.stdin_log = 0,
                               !.pc = "attempt", !.max_retries = RunRetries,
                               !.delay_ms = RunDelayMs, !.attempt = 0]
               ELSE FwRet(fw, "Err", "session")
  /\ UNCHANGED <<protoVars, ptyVars, det, na, moreVars>>

\* self.terminal.enter_raw_mode()?
RunEnterRaw ==
  /\ fw.pc = "raw"
  /\ \E ok \in BOOLEAN :
       fw' = IF ok THEN [fw EXCEPT !.raw = TRUE, !.pc = "forward"]
                   ELSE FwRet(fw, "Err", "raw_mode")
  /\ UNCHANGED <<protoVars, ptyVars, det, na, moreVars>>

\* forward_stdin: a chunk read from stdin is written to the PTY and, if there
\* is a socket client, sent as a StdinData frame
RunForwardStdin ==
  /\ fw.pc = "forward"
  /\ fw.to_pty < MaxStdin
  /\ fw' = [fw EXCEPT !.to_pty = @ + 1,
                      !.sent = IF fw.client THEN Append(@, StdinFrame) ELSE @]
  /\ UNCHANGED <<protoVars, ptyVars, det, na, moreVars>>

\* one of the forwarding tasks ends (stdin EOF, PTY EOF, shutdown)
RunForwardEnd ==
  /\ fw.pc = "forward"
  /\ fw' = [fw EXCEPT !.pc = "restore"]
  /\ UNCHANGED <<protoVars, ptyVars, det, na, moreVars>>

\* leave_raw_mode, then session.json is rewritten with status "exited"
\* (store.update_session in crates, session.cleanup in web)
RunRestore ==
  /\ fw.pc = "restore"
  /\ fw' = FwRet(UpdateSession([fw EXCEPT !.raw = FALSE, !.json.status = "exited",
                                            !.writes = @ + 1]),
                 IF io.res = "Err" THEN "Err" ELSE "Ok",
                 IF io.res = "Err" THEN "forward_io" ELSE "")
  /\ UNCHANGED <<protoVars, ptyVars, det, na, moreVars>>

RunSteps ==
  \/ RunCreatePty \/ RunCreateSession \/ RunEnterRaw
  \/ RunForwardStdin \/ RunForwardEnd \/ RunRestore

\* update_session_title(session_id, new_title)
CallUpdateSessionTitle(title) ==
  /\ fw.op = "idle"
  /\ fw' = [fw EXCEPT !.op = "update_session_title", !.pc = "load", !.title = title]
  /\ UNCHANGED <<protoVars, ptyVars, det, na, moreVars>>

\* load_session(session_id)? (crates), Session::load(session_id)? (web); then
\* connect_with_retry(&socket_path, 10, 100) (crates) or one connect (web)
TitleLoad ==
  /\ fw.pc = "load"
  /\ fw' = IF ~fw.json.exists THEN FwRet(fw, "Err", "load")
           ELSE IF fw.variant = "crates"
                  THEN [fw EXCEPT !.pc = "attempt", !.max_retries = RunRetries,
                                  !.delay_ms = RunDelayMs, !.attempt = 0]
                  ELSE [fw EXCEPT !.pc = "connect"]
  /\ UNCHANGED <<protoVars, ptyVars, det, na, moreVars>>

\* web: SocketClient::connect(&socket_path).await.context(..)?
TitleConnect ==
  /\ fw.pc = "connect"
  /\ \E ok \in BOOLEAN :
       fw' = IF ok
               THEN AfterConnect([fw EXCEPT !.log = Append(@, Connected), !.client = TRUE], TRUE)
               ELSE AfterConnect([fw EXCEPT !.log = Append(@, Refused)], FALSE)
  /\ UNCHANGED <<protoVars, ptyVars, det, na, moreVars>>

\* client.send_update_title(new_title).await?  The web variant returns Ok(())
\* after it; the crates variant goes on to update session.json
TitleSend ==
  /\ fw.pc = "send_title"
  /\ \E ok \in BOOLEAN :
       fw' = IF ~ok THEN FwRet(fw, "Err", "send")
             ELSE LET f == [fw EXCEPT !.sent = Append(@, UpdateTitleFrame(fw.title))]
                  IN  IF fw.variant = "crates" THEN [f EXCEPT !.pc = "write_json"]
                                               ELSE FwRet(f, "Ok", "")
  /\ UNCHANGED <<protoVars, ptyVars, det, na, moreVars>>

\* crates: info.name = new_title; store.update_session(session_id, info)?
TitleWriteJson ==
  /\ fw.pc = "write_json"
  /\ fw' = FwRet(UpdateSession([fw EXCEPT !.json.name = fw.title, !.writes = @ + 1]), "Ok", "")
  /\ UNCHANGED <<protoVars, ptyVars, det, na, moreVars>>

\* the supervisor appends to the stdout or the stdin file of the session
SupervisorLogs(file) ==
  /\ fw.json.exists
  /\ fw[file] < MaxLog
  /\ fw' = [fw EXCEPT ![file] = @ + 1]
  /\ UNCHANGED <<protoVars, ptyVars, det, na, moreVars>>

TitleSteps == TitleLoad \/ TitleConnect \/ TitleSend \/ TitleWriteJson

(***************************************************************************)
(* ActivityDetector (native-pty).  A text is a sequence of characters; an   *)
(* ASCII character is the string that holds it, the others are named:       *)
(* "STAR" (U+273B), "ELLIPSIS" (U+2026), "MIDDOT" (U+00B7), "UP" (U+2191),  *)
(* "HAMMER" (U+2692), "ESC" (0x1b).                                         *)
(***************************************************************************)
Digit == {"0", "1", "2", "3", "4", "5", "6", "7", "8", "9"}

Letter ==
  {"a", "b", "c", "d", "e", "f", "g", "h", "i", "j", "k", "l", "m", "n", "o", "p", "q",
   "r", "s", "t", "u", "v", "w", "x", "y", "z", "C"}

\* \s, \w, [\d.], [0-9;]
Space == {" "}

Word == Letter \cup Digit \cup {"_"}

DigitDot == Digit \cup {"."}

AnsiParam == Digit \cup {";"}

\* the text literals of claude_pattern
LitTokens == <<"t", "o", "k", "e", "n", "s">>

LitTo == <<"t", "o">>

LitInterrupt == <<"i", "n", "t", "e", "r", "r", "u", "p", "t">>

RECURSIVE RunOf(_, _, _)
\* greedy C*: the position after the longest run of characters of C from i
RunOf(txt, i, C) ==
  IF i <= Len(txt) /\ txt[i] \in C THEN RunOf(txt, i + 1, C) ELSE i

\* the literal lit stands at position i
At(txt, i, lit) ==
  /\ i + Len(lit) - 1 <= Len(txt)
  /\ \A k \in 1..Len(lit) : txt[i + k - 1] = lit[k]

RECURSIVE StripAnsi(_)
\* ansi_pattern.replace_all(&text, ""): every \x1b\[[0-9;]*[a-zA-Z] is removed
StripAnsi(txt) ==
  IF txt = <<>> THEN <<>>
  ELSE IF At(txt, 1, <<"ESC", "[">>)
          /\ RunOf(txt, 3, AnsiParam) <= Len(txt)
          /\ txt[RunOf(txt, 3, AnsiParam)] \in Letter
         THEN StripAnsi(SubSeq(txt, RunOf(txt, 3, AnsiParam) + 1, Len(txt)))
         ELSE <<Head(txt)>> \o StripAnsi(Tail(txt))

\* \s*·\s*[^)]+to\s+interrupt\) matches from i: [^)]+ gives back characters
\* until "to", spaces, "interrupt" and ")" follow
InterruptTail(txt, i) ==
  LET a == RunOf(txt, i, Space)
  IN  /\ At(txt, a, <<"MIDDOT">>)
      /\ \E e \in (RunOf(txt, a + 1, Space) + 1)..Len(txt) :
           /\ \A k \in (a + 1)..(e - 1) : txt[k] # ")"
           /\ e - 1 >= a + 1
           /\ At(txt, e, LitTo)
           /\ RunOf(txt, e + 2, Space) > e + 2
           /\ At(txt, RunOf(txt, e + 2, Space), LitInterrupt \o <<")">>)

\* \s*k?\s*tokens followed by the interrupt tail matches from i; k? is greedy
\* and is given up when the rest does not match with it
TokensTail(txt, i) ==
  LET a == RunOf(txt, i, Space)
      WithK == /\ At(txt, a, <<"k">>)
               /\ At(txt, RunOf(txt, a + 1, Space), LitTokens)
               /\ InterruptTail(txt, RunOf(txt, a + 1, Space) + Len(LitTokens))
      NoK   == /\ At(txt, a, LitTokens)
               /\ InterruptTail(txt, a + Len(LitTokens))
  IN  WithK \/ NoK

\* the ways \s*(\S?)\s*([\d.]+) can match from i with the rest of the pattern
\* matching after it: n1 spaces, d direction characters, n2 spaces, m count
\* characters
TokenSplits(txt, i) ==
  UNION {
    UNION {
      UNION {
        { [n1 |-> n1, d |-> d, n2 |-> n2, m |-> m] :
            m \in {k \in 1..(RunOf(txt, i + n1 + d + n2, DigitDot) - (i + n1 + d + n2)) :
                     TokensTail(txt, i + n1 + d + n2 + k)} } :
        n2 \in 0..(RunOf(txt, i + n1 + d, Space) - (i + n1 + d)) } :
      d \in {x \in 0..1 : x = 1 => (i + n1 <= Len(txt) /\ txt[i + n1] \notin Space)} } :
    n1 \in 0..(RunOf(txt, i, Space) - i) }

\* every quantifier is greedy: of two ways to match, the regex takes the one
\* whose first differing quantifier took more
Prefer(x, y) ==
  \/ x.n1 > y.n1
  \/ x.n1 = y.n1 /\ x.d > y.d
  \/ x.n1 = y.n1 /\ x.d = y.d /\ x.n2 > y.n2
  \/ x.n1 = y.n1 /\ x.d = y.d /\ x.n2 = y.n2 /\ x.m > y.m

NoMatch == [matched |-> FALSE, indicator |-> <<>>, action |-> <<>>, duration |-> <<>>,
            segment |-> FALSE, direction |-> <<>>, tokens |-> <<>>]

\* claude_pattern tried at position i of txt.  Up to the duration the match is
\* forced (each class is followed by a character outside it); then the
\* optional group is tried first, and given up if it or the closing
\* parenthesis does not match
MatchAt(txt, i) ==
  LET a1 == i + 1                          \* after (\S)
      a2 == RunOf(txt, a1, Space)            \* after \s+
      a3 == RunOf(txt, a2, Word)             \* after (\w+)
      a4 == RunOf(txt, a3 + 1, Space)        \* after … and \s*
      a5 == RunOf(txt, a4 + 1, Digit)        \* after \( and (\d+)
      head == /\ i <= Len(txt) /\ txt[i] \notin Space
              /\ a2 > a1
              /\ a3 > a2
              /\ At(txt, a3, <<"ELLIPSIS">>)
              /\ At(txt, a4, <<"(">>)
              /\ a5 > a4 + 1
              /\ At(txt, a5, <<"s">>)
      g0 == RunOf(txt, a5 + 1, Space)        \* group: after \s*
      g1 == g0 + 1                         \* group: after ·
      splits == IF head /\ At(txt, g0, <<"MIDDOT">>) THEN TokenSplits(txt, g1) ELSE {}
      base == [NoMatch EXCEPT !.matched = TRUE,
                              !.indicator = SubSeq(txt, i, i),
                              !.action = SubSeq(txt, a2, a3 - 1),
                              !.duration = SubSeq(txt, a4 + 1, a5 - 1)]
  IN  IF ~head THEN NoMatch
      ELSE IF splits # {}
        THEN LET sp == CHOOSE x \in splits : \A y \in splits \ {x} : Prefer(x, y)
                 p1 == g1 + sp.n1
                 p3 == p1 + sp.d + sp.n2
             IN  [base EXCEPT !.segment = TRUE,
                              !.direction = SubSeq(txt, p1, p1 + sp.d - 1),
                              !.tokens = SubSeq(txt, p3, p3 + sp.m - 1)]
      ELSE IF At(txt, a5 + 1, <<")">>) THEN base
      ELSE NoMatch

\* claude_pattern.captures(&clean_text): the leftmost match
Captures(txt) ==
  IF \E i \in 1..Len(txt) : MatchAt(txt, i).matched
    THEN MatchAt(txt, CHOOSE i \in 1..Len(txt) :
                        /\ MatchAt(txt, i).matched
                        /\ \A j \in 1..(i - 1) : ~MatchAt(txt, j).matched)
    ELSE NoMatch

NoActivity == [some |-> FALSE, status |-> <<>>, details |-> <<>>]

\* ActivityDetector::detect
detect(data) ==
  LET cap == Captures(StripAnsi(data))
  IN  IF ~cap.matched THEN NoActivity
      ELSE [some    |-> TRUE,
            status  |-> cap.indicator \o <<" ">> \o cap.action,
            details |-> IF cap.segment
                          THEN cap.duration \o <<"s", ",", " ">> \o cap.direction
                                 \o cap.tokens \o <<"k">>
                          ELSE cap.duration \o <<"s">>]

\* the status lines handed to detect: an indicator, an action, a duration and,
\* if seg, a token segment with a direction character (or none), a count, with
\* or without the k suffix, and the interrupt hint; ansi: with colour codes
Durations == {<<"0">>, <<"6">>, <<"1", "2", "0">>}

Directions == {<<>>, <<"UP">>, <<"HAMMER">>}

Counts == {<<"5">>, <<"1", "0", "0">>, <<"6", "7", "1">>, <<"6", ".", "0">>}

Hints == {<<"e", "s", "c">>, <<"c", "t", "r", "l", "-", "c">>}

Gaps(n) == [k \in 1..n |-> " "]

Pieces ==
  [duration : Durations, seg : BOOLEAN, gap1 : 1..2, direction : Directions, gap2 : 0..1,
   count : Counts, k : BOOLEAN, hint : Hints, ansi : BOOLEAN]

\* without a token segment its pieces do not matter; a gap after the direction
\* needs a direction
WellFormed(p) ==
  /\ ~p.seg => (p.gap1 = 1 /\ p.direction = <<>> /\ p.gap2 = 0 /\ p.count = <<"5">> /\ ~p.k
               /\ p.hint = <<"e", "s", "c">>)
  /\ p.direction = <<>> => p.gap2 = 0

StatusLine(p) ==
  (IF p.ansi THEN <<"ESC", "[", "3", "2", "m">> ELSE <<>>)
  \o <<"STAR", " ", "C", "r", "a", "f", "t", "i", "n", "g", "ELLIPSIS">>
  \o (IF p.ansi THEN <<"ESC", "[", "0", "m">> ELSE <<>>)
  \o <<" ", "(">> \o p.duration \o <<"s">>
  \o (IF p.seg
        THEN <<" ", "MIDDOT">> \o Gaps(p.gap1) \o p.direction \o Gaps(p.gap2) \o p.count
             \o (IF p.k THEN <<"k">> ELSE <<>>) \o <<" ">> \o LitTokens
             \o <<" ", "MIDDOT", " ">> \o p.hint \o <<" ">> \o LitTo \o <<" ">> \o LitInterrupt
        ELSE <<>>)
  \o <<")">>

DetIdleState == [pc |-> "idle", pieces |-> CHOOSE p \in Pieces : WellFormed(p) /\ ~p.seg /\ ~p.ansi
                                                               /\ p.duration = <<"0">>,
                 data |-> <<>>, result |-> NoActivity]

DetIdle == det = DetIdleState

\* detect(data) is called
Detect ==
  /\ det.pc = "input"
  /\ det' = [det EXCEPT !.pc = "done", !.result = detect(det.data)]
  /\ UNCHANGED <<protoVars, ptyVars, fw, na, moreVars>>

(***************************************************************************)
(* napi-addon (bindings.rs, manager.rs): the sessions of NaSessions have    *)
(* been created by NativePty::new; the JavaScript thread makes one call at  *)
(* a time; set_on_data starts a reader thread for its session.              *)
(***************************************************************************)
NaSessions == {"a", "b"}

NaOps == {"set_on_data", "write", "resize", "kill", "check_exit_status", "destroy"}

NaJsIdle == [op |-> "none", s |-> "a", pc |-> "idle", res |-> "none"]

\* nonblock: whether reads of the PTY master return WouldBlock instead of
\* waiting (create_pty neither sets nor clears O_NONBLOCK on the descriptor)
NaInit(nonblock) ==
  [nonblock |-> nonblock,
   lock     |-> Free,                               \* holder of PTY_MANAGER: Free or the
                                                      \* session of the reader thread holding it
   sessions |-> NaSessions,                         \* keys of PtyManager.sessions
   child    |-> [s \in NaSessions |-> "running"],   \* "running", "exited", "reaped"
   left     |-> [s \in NaSessions |-> NaOut],       \* chunks the child has yet to write
   pending  |-> [s \in NaSessions |-> 0],           \* chunks written and not yet read
   callback |-> [s \in NaSessions |-> FALSE],       \* data_callback is Some
   handle   |-> [s \in NaSessions |-> FALSE],       \* reader_thread is Some
   rpc      |-> [s \in NaSessions |-> "none"],      \* the reader thread's position
   calls    |-> [s \in NaSessions |-> 0],           \* callback.call(..) made
   js       |-> NaJsIdle,                           \* the call of the JavaScript thread
   ncalls   |-> 0]

NaIdleState == [NaInit(FALSE) EXCEPT !.sessions = {}, !.left = [s \in NaSessions |-> 0]]

NaIdle == na = NaIdleState

NaReturn(n, res) == [n EXCEPT !.js.pc = "idle", !.js.res = res]

\* the JavaScript thread enters a method of the NativePty of session s
NaCall(op, s) ==
  /\ na.js.pc = "idle"
  /\ na.ncalls < NaMaxCalls
  /\ na' = [na EXCEPT !.ncalls = @ + 1,
                      !.js = [op |-> op, s |-> s, res |-> "none",
                              pc |-> CASE op = "set_on_data" -> "store"
                                       [] op = "destroy" -> "clear"
                                       [] OTHER -> "lock"]]
  /\ UNCHANGED <<protoVars, ptyVars, fw, det, moreVars>>

\* set_on_data: store the callback; spawn the reader thread if reader_thread is None
NaSetOnData ==
  /\ na.js.pc = "store"
  /\ LET s == na.js.s
     IN  na' = NaReturn([na EXCEPT !.callback[s] = TRUE,
                                   !.handle[s] = TRUE,
                                   !.rpc[s] = IF na.handle[s] THEN @ ELSE "sleep"], "Ok")
  /\ UNCHANGED <<protoVars, ptyVars, fw, det, moreVars>>

\* write, resize, kill, check_exit_status: PTY_MANAGER.lock().unwrap(), then
\* get_session_mut and the operation on the session, all under the lock
NaLocked ==
  /\ na.js.pc = "lock"
  /\ na.lock = Free
  /\ LET s     == na.js.s
         op    == na.js.op
         found == s \in na.sessions
     IN  na' =
           CASE op \in {"write", "resize"} ->
                  NaReturn(na, IF found THEN "Ok" ELSE "NotFound")
             [] op = "kill" ->
                  IF ~found THEN NaReturn(na, "Ok")
                  ELSE IF na.child[s] = "reaped" THEN NaReturn(na, "KillFailed")
                  ELSE NaReturn([na EXCEPT !.child[s] = "exited"], "Ok")
             [] OTHER ->
                  IF ~found THEN NaReturn(na, "NotFound")
                  ELSE IF na.child[s] = "running" THEN NaReturn(na, "None")
                  ELSE NaReturn([na EXCEPT !.child[s] = "reaped"], "Some")
  /\ UNCHANGED <<protoVars, ptyVars, fw, det, moreVars>>

\* destroy: *cb = None
NaDestroyClear ==
  /\ na.js.pc = "clear"
  /\ na' = [na EXCEPT !.callback[na.js.s] = FALSE, !.js.pc = "join"]
  /\ UNCHANGED <<protoVars, ptyVars, fw, det, moreVars>>

\* destroy: if let Some(handle) = reader_thread.take() { handle.join() }
NaDestroyJoin ==
  /\ na.js.pc = "join"
  /\ na.handle[na.js.s] => na.rpc[na.js.s] = "done"
  /\ na' = [na EXCEPT !.handle[na.js.s] = FALSE, !.js.pc = "remove"]
  /\ UNCHANGED <<protoVars, ptyVars, fw, det, moreVars>>

\* destroy: PTY_MANAGER.lock(); remove_session; child.kill(); child.wait()
NaDestroyRemove ==
  /\ na.js.pc = "remove"
  /\ na.lock = Free
  /\ LET s == na.js.s
     IN  na' = IF s \in na.sessions
                 THEN NaReturn([na EXCEPT !.sessions = @ \ {s}, !.child[s] = "reaped"], "Ok")
                 ELSE NaReturn(na, "Ok")
  /\ UNCHANGED <<protoVars, ptyVars, fw, det, moreVars>>

NaJsSteps == NaSetOnData \/ NaLocked \/ NaDestroyClear \/ NaDestroyJoin \/ NaDestroyRemove

\* reader thread: thread::sleep(Duration::from_millis(10))
NaReaderSleep(s) ==
  /\ na.rpc[s] = "sleep"
  /\ na' = [na EXCEPT !.rpc[s] = "lock"]
  /\ UNCHANGED <<protoVars, ptyVars, fw, det, moreVars>>

\* reader thread: PTY_MANAGER.lock().unwrap()
NaReaderLock(s) ==
  /\ na.rpc[s] = "lock"
  /\ na.lock = Free
  /\ na' = [na EXCEPT !.lock = s, !.rpc[s] = "read"]
  /\ UNCHANGED <<protoVars, ptyVars, fw, det, moreVars>>

\* the read of the reader thread has to wait: nothing to read from a running
\* child on a descriptor without O_NONBLOCK
NaReaderWaits(s) ==
  /\ na.rpc[s] = "read"
  /\ s \in na.sessions
  /\ na.pending[s] = 0
  /\ na.child[s] = "running"
  /\ ~na.nonblock

\* reader thread, holding PTY_MANAGER: get_session_mut, session.handle.reader.read;
\* the lock is released when the block ends
NaReaderRead(s) ==
  /\ na.rpc[s] = "read"
  /\ ~NaReaderWaits(s)
  /\ na' = IF s \notin na.sessions
             THEN [na EXCEPT !.lock = Free, !.rpc[s] = "done"]
           ELSE IF na.pending[s] > 0
             THEN [na EXCEPT !.lock = Free, !.pending[s] = @ - 1, !.rpc[s] = "cb"]
           ELSE IF na.child[s] # "running"
             THEN [na EXCEPT !.lock = Free, !.rpc[s] = "done"]
           ELSE [na EXCEPT !.lock = Free, !.rpc[s] = "sleep"]
  /\ UNCHANGED <<protoVars, ptyVars, fw, det, moreVars>>

\* reader thread: if let Some(ref callback) = *cb { callback.call(data, Blocking) }
NaReaderCallback(s) ==
  /\ na.rpc[s] = "cb"
  /\ na' = [na EXCEPT !.calls[s] = IF na.callback[s] THEN @ + 1 ELSE @, !.rpc[s] = "sleep"]
  /\ UNCHANGED <<protoVars, ptyVars, fw, det, moreVars>>

NaReaderStep(s) ==
  NaReaderSleep(s) \/ NaReaderLock(s) \/ NaReaderRead(s) \/ NaReaderCallback(s)

\* the child writes a chunk to its terminal
NaChildWrite(s) ==
  /\ na.child[s] = "running"
  /\ na.left[s] > 0
  /\ na' = [na EXCEPT !.left[s] = @ - 1, !.pending[s] = @ + 1]
  /\ UNCHANGED <<protoVars, ptyVars, fw, det, moreVars>>

\* the child exits by itself
NaChildExit(s) ==
  /\ na.child[s] = "running"
  /\ na' = [na EXCEPT !.child[s] = "exited"]
  /\ UNCHANGED <<protoVars, ptyVars, fw, det, moreVars>>

(***************************************************************************)
(* forward_io (vt-pipe, both variants): three futures polled by one         *)
(* tokio::select!, the shutdown flag, the inputs of the tasks and the bytes *)
(* in flight on the supervisor channel                                      *)
(***************************************************************************)

Tasks == {"stdin", "stdout", "resize"}

\* a frame travels as its 5-byte header and its payload
FrameOf(type, id) == <<[type |-> type, id |-> id, part |-> "head"],
                       [type |-> type, id |-> id, part |-> "body"]>>

TaskStart == [stdin  |-> [pc |-> "select", chunk |-> 0, left |-> <<>>],
              stdout |-> [pc |-> "top",    chunk |-> 0, left |-> <<>>],
              resize |-> [pc |-> "select", chunk |-> 0, left |-> <<>>]]

IoStart(nonblock) ==
  [shutdown    |-> FALSE,       \* the Arc<Mutex<bool>> of run
   nonblock    |-> nonblock,    \* the PTY reader returns WouldBlock instead of waiting
   stdin_in    |-> "none",      \* the user's stdin: "none", "data", "eof"
   winch       |-> FALSE,       \* a window-change notification is pending
   child       |-> "running",
   produced    |-> 0,           \* chunks the child has written so far
   pty_out     |-> <<>>,        \* chunks waiting in the PTY
   t           |-> TaskStart,   \* the three futures
   client_lock |-> "free",      \* holder of the Mutex around the SocketClient
   chan        |-> <<>>,        \* the socket's send buffer
   reads       |-> <<>>,        \* chunks forward_stdout has read
   out         |-> <<>>,        \* chunks written to the user's stdout
   sent_stdout |-> <<>>,        \* chunks sent as StdoutData frames
   first       |-> "none",      \* the task whose completion ended forward_io
   res         |-> "none"]      \* the value forward_io returned

IoIdleState == [IoStart(FALSE) EXCEPT !.t = [x \in Tasks |-> [pc |-> "idle", chunk |-> 0, left |-> <<>>]]]

IoIdle == io = IoIdleState


Forwarding ==
  /\ fw.op = "run" /\ fw.pc = "forward"
  /\ io.first = "none" /\ io.t["stdout"].pc # "idle"

IoGo(task, pc) == [io EXCEPT !.t[task].pc = pc]

\* select! in forward_io: the first future to complete ends forward_io, the
\* other two futures are dropped where they are, and with them the guard of
\* the client mutex
IoFinish(i, task, res) ==
  /\ io' = [i EXCEPT !.first = task, !.res = res, !.client_lock = "free",
                      !.t = [x \in Tasks |->
                               [i.t[x] EXCEPT !.pc = IF x = task THEN "done" ELSE "dropped"]]]
  /\ fw' = [fw EXCEPT !.pc = "restore"]

IoStep(i) == io' = i /\ fw' = fw

IoFrame == UNCHANGED <<protoVars, ptyVars, det, na, sc, term>>

\* where a task goes after its handler
LoopTop(task) == IF task = "stdout" THEN "top" ELSE "select"

\* `if let Some(client) = &mut *socket_client.lock().await { client.send_..(..).await?; }`
ToSocket(i, task, type, id) ==
  IF fw.client THEN [i EXCEPT !.t[task].pc = "lock_client", !.t[task].left = FrameOf(type, id)]
               ELSE [i EXCEPT !.t[task].pc = LoopTop(task)]

\* socket_client.lock().await returns
IoLockClient(task) ==
  /\ Forwarding
  /\ io.t[task].pc = "lock_client"
  /\ io.client_lock = "free"
  /\ IoStep([io EXCEPT !.client_lock = task, !.t[task].pc = "sending"])
  /\ IoFrame

\* stream.write_all(&message): one poll writes what the send buffer takes; the
\* future is pending while bytes are left
IoSend(task) ==
  /\ Forwarding
  /\ io.t[task].pc = "sending"
  /\ Len(io.chan) < SockCap
  /\ LET k    == Min(SockCap - Len(io.chan), Len(io.t[task].left))
         left == SubSeq(io.t[task].left, k + 1, Len(io.t[task].left))
         i1   == [io EXCEPT !.chan = @ \o SubSeq(io.t[task].left, 1, k),
                            !.t[task].left = left]
     IN  IoStep(IF left # <<>> THEN i1
                ELSE [i1 EXCEPT !.client_lock = "free",
                                !.t[task].pc = LoopTop(task),
                                !.sent_stdout = IF task = "stdout"
                                                THEN Append(@, io.t[task].chunk) ELSE @])
  /\ IoFrame

\* ---- forward_stdin ----

\* stdin.read returns n > 0: the chunk goes to the PTY writer on a blocking thread
StdinRead ==
  /\ Forwarding
  /\ io.t["stdin"].pc = "select"
  /\ io.stdin_in = "data"
  /\ IoStep([IoGo("stdin", "pty_write") EXCEPT !.stdin_in = "none"])
  /\ IoFrame

\* stdin.read returns 0
StdinEof ==
  /\ Forwarding
  /\ io.t["stdin"].pc = "select"
  /\ io.stdin_in = "eof"
  /\ IoFinish(io, "stdin", "Ok")
  /\ IoFrame

\* the blocking write has returned
StdinWritten ==
  /\ Forwarding
  /\ io.t["stdin"].pc = "pty_write"
  /\ IoStep(ToSocket(io, "stdin", "StdinData", 0))
  /\ IoFrame

\* 100 ms went by without stdin data: the flag is looked at
StdinQuiet ==
  /\ Forwarding
  /\ io.t["stdin"].pc = "select"
  /\ io.stdin_in = "none"
  /\ io.shutdown
  /\ IoFinish(io, "stdin", "Ok")
  /\ IoFrame

\* ---- forward_stdout ----

\* top of the loop: the flag, then the PTY read is handed to a blocking thread
StdoutTop ==
  /\ Forwarding
  /\ io.t["stdout"].pc = "top"
  /\ IF io.shutdown THEN IoFinish(io, "stdout", "Ok")
                    ELSE IoStep(IoGo("stdout", "read"))
  /\ IoFrame

\* reader.read returns: a chunk, 0 at the end of the child's output, or
\* WouldBlock; a blocking descriptor with nothing to read does not return
StdoutRead ==
  /\ Forwarding
  /\ io.t["stdout"].pc = "read"
  /\ \/ /\ io.pty_out # <<>>
        /\ IoStep([io EXCEPT !.pty_out = Tail(@), !.reads = Append(@, Head(io.pty_out)),
                             !.t["stdout"].chunk = Head(io.pty_out),
                             !.t["stdout"].pc = "write_stdout"])
     \/ /\ io.pty_out = <<>>
        /\ io.child = "exited"
        /\ IoFinish(io, "stdout", "Ok")
     \/ /\ io.pty_out = <<>>
        /\ io.child = "running"
        /\ io.nonblock
        /\ IoStep(IoGo("stdout", "sleep"))
  /\ IoFrame

\* sleep(10 ms); continue
StdoutSleep ==
  /\ Forwarding
  /\ io.t["stdout"].pc = "sleep"
  /\ IoStep(IoGo("stdout", "top"))
  /\ IoFrame

\* the crates forward_stdout never looks at its socket client
StdoutSends == fw.variant = "web"

\* stdout.write_all, flush; then send_stdout (web)
StdoutWrite ==
  /\ Forwarding
  /\ io.t["stdout"].pc = "write_stdout"
  /\ LET i1 == [io EXCEPT !.out = Append(@, io.t["stdout"].chunk)]
     IN  IoStep(IF StdoutSends THEN ToSocket(i1, "stdout", "StdoutData", io.t["stdout"].chunk)
                               ELSE [i1 EXCEPT !.t["stdout"].pc = "top"])
  /\ IoFrame

\* ---- handle_resize ----

\* sigwinch.recv() returns: terminal.size()?, master.resize, send_resize
ResizeRecv ==
  /\ Forwarding
  /\ io.t["resize"].pc = "select"
  /\ io.winch
  /\ \E ok \in BOOLEAN :
       IF ok THEN IoStep(ToSocket([io EXCEPT !.winch = FALSE], "resize", "ControlCmd", 0))
             ELSE IoFinish([io EXCEPT !.winch = FALSE], "resize", "Err")
  /\ IoFrame

\* 100 ms went by without a window change: the flag is looked at
ResizeQuiet ==
  /\ Forwarding
  /\ io.t["resize"].pc = "select"
  /\ ~io.winch
  /\ io.shutdown
  /\ IoFinish(io, "resize", "Ok")
  /\ IoFrame

\* ---- the world around forward_io ----

UserTypes ==
  /\ Forwarding
  /\ io.stdin_in = "none"
  /\ \E x \in {"data", "eof"} : IoStep([io EXCEPT !.stdin_in = x])
  /\ IoFrame

WindowChanges ==
  /\ Forwarding
  /\ ~io.winch
  /\ IoStep([io EXCEPT !.winch = TRUE])
  /\ IoFrame

ChildPrints ==
  /\ Forwarding
  /\ io.child = "running"
  /\ io.produced < MaxChunks
  /\ IoStep([io EXCEPT !.produced = @ + 1, !.pty_out = Append(@, io.produced + 1)])
  /\ IoFrame

ChildEnds ==
  /\ Forwarding
  /\ io.child = "running"
  /\ IoStep([io EXCEPT !.child = "exited"])
  /\ IoFrame

\* the handler installed by setup_signal_handlers
CtrlC ==
  /\ Forwarding
  /\ ~io.shutdown
  /\ IoStep([io EXCEPT !.shutdown = TRUE])
  /\ IoFrame

\* the supervisor takes bytes off the channel
SupervisorReads ==
  /\ fw.op = "run"
  /\ io.chan # <<>>
  /\ IoStep([io EXCEPT !.chan = Tail(@)])
  /\ IoFrame

TaskSteps ==
  \/ StdinRead \/ StdinEof \/ StdinWritten \/ StdinQuiet
  \/ StdoutTop \/ StdoutRead \/ StdoutSleep \/ StdoutWrite
  \/ ResizeRecv \/ ResizeQuiet
  \/ \E task \in Tasks : IoLockClient(task) \/ IoSend(task)

WorldSteps ==
  \/ UserTypes \/ WindowChanges \/ ChildPrints \/ ChildEnds \/ CtrlC \/ SupervisorReads

(***************************************************************************)
(* SocketClient::read_message (crates: buffering, on decode_message; web:   *)
(* read_exact of the header and of the payload) and the peer that writes    *)
(***************************************************************************)

\* what the peer writes: two well-formed frames and one with type byte 0
PeerFrames ==
  {[type |-> "StdinData",  payload |-> <<>>],
   [type |-> "StdoutData", payload |-> Bytes(<<7>>)],
   [type |-> "unknown",    payload |-> <<>>]}

FrameBytes(f) ==
  IF f.type \in MessageType THEN encode_message(f.type, f.payload)
  ELSE Cat(Bytes(<<0>> \o U32ToBeBytes(EncodedLength(f.payload))), f.payload)

ReadSome(t, payload) == [kind |-> "Some", type |-> t, payload |-> payload]
ReadNone == [kind |-> "None", type |-> "", payload |-> <<>>]
ReadErr(why) == [kind |-> "Err", type |-> why, payload |-> <<>>]
UnknownMessageType == ReadErr("Unknown message type")

ScStart(v) ==
  [variant |-> v,
   wire    |-> <<>>,      \* bytes written by the peer and not yet read
   closed  |-> FALSE,     \* the peer has closed the stream
   written |-> <<>>,      \* the frames the peer has written
   buffer  |-> <<>>,      \* crates: self.buffer
   pc      |-> "idle",    \* "read": in stream.read / read_exact(header); "payload"
   hdr     |-> [type |-> "", length |-> SzZero],
   results |-> <<>>,      \* what the read_message calls returned
   eof     |-> FALSE]     \* a call has met the end of the stream

ScIdleState == [ScStart("crates") EXCEPT !.closed = TRUE]

ScIdle == sc = ScIdleState

ScFrame == UNCHANGED <<protoVars, ptyVars, fw, det, na, io, term>>

ScRet(s, r) == [s EXCEPT !.pc = "idle", !.results = Append(@, r)]

ReadMessageCall ==
  /\ sc.pc = "idle"
  /\ Len(sc.results) < MaxReads
  /\ sc' = [sc EXCEPT !.pc = "read"]
  /\ ScFrame

\* crates: stream.read(&mut temp_buf) returns, then decode_message(&self.buffer)?
ReadMessageBuffered ==
  /\ sc.variant = "crates"
  /\ sc.pc = "read"
  /\ sc.wire # <<>> \/ sc.closed
  /\ IF sc.wire = <<>>
       THEN sc' = ScRet([sc EXCEPT !.eof = TRUE], ReadNone)
       ELSE \E n \in 1..Min(BLen(sc.wire).lo, BufSize) :
              LET buf == Cat(sc.buffer, BTake(sc.wire, Sz(n)))
                  s1  == [sc EXCEPT !.wire = BDrop(@, Sz(n)), !.buffer = buf]
                  d   == decode_message(buf)
              IN  sc' = CASE d.kind = "Err"  -> ScRet(s1, UnknownMessageType)
                          [] d.kind = "None" -> ScRet(s1, ReadNone)
                          [] d.kind = "Some" ->
                               ScRet([s1 EXCEPT !.buffer = BDrop(buf, d.consumed)],
                                     ReadSome(d.type, d.payload))
  /\ ScFrame

\* web: read_exact(&mut header) returns; the type byte and the length
ReadMessageHeader ==
  /\ sc.variant = "web"
  /\ sc.pc = "read"
  /\ ~SzLess(BLen(sc.wire), Sz(5)) \/ sc.closed
  /\ IF SzLess(BLen(sc.wire), Sz(5))
       THEN sc' = ScRet([sc EXCEPT !.wire = <<>>, !.eof = TRUE], ReadNone)
       ELSE LET msg_type == MessageTypeTryFrom(BAt(sc.wire, 0))
                length   == U32FromBeBytes(BAt(sc.wire, 1), BAt(sc.wire, 2),
                                           BAt(sc.wire, 3), BAt(sc.wire, 4))
                s1       == [sc EXCEPT !.wire = BDrop(@, Sz(5))]
            IN  sc' = IF ~msg_type.ok THEN ScRet(s1, UnknownMessageType)
                      ELSE [s1 EXCEPT !.pc = "payload",
                                      !.hdr = [type |-> msg_type.type, length |-> length]]
  /\ ScFrame

\* web: read_exact(&mut payload) returns
ReadMessagePayload ==
  /\ sc.variant = "web"
  /\ sc.pc = "payload"
  /\ SzLeq(sc.hdr.length, BLen(sc.wire)) \/ sc.closed
  /\ sc' = IF SzLeq(sc.hdr.length, BLen(sc.wire))
             THEN ScRet([sc EXCEPT !.wire = BDrop(@, sc.hdr.length)],
                        ReadSome(sc.hdr.type, BTake(sc.wire, sc.hdr.length)))
             ELSE ScRet([sc EXCEPT !.wire = <<>>, !.eof = TRUE], ReadErr("Failed to read payload"))
  /\ ScFrame

PeerWrites(f) ==
  /\ ~sc.closed
  /\ Len(sc.written) < MaxPeerFrames
  /\ sc' = [sc EXCEPT !.wire = Cat(@, FrameBytes(f)), !.written = Append(@, f)]
  /\ ScFrame

PeerCloses ==
  /\ ~sc.closed
  /\ sc' = [sc EXCEPT !.closed = TRUE]
  /\ ScFrame

(***************************************************************************)
(* Terminal (vibetunnel-pty/src/cli/terminal.rs: "cli"; vt-pipe/src/        *)
(* terminal.rs: "web", on crossterm's enable_raw_mode / disable_raw_mode,   *)
(* which keep the attributes found at the first enable until the disable)   *)
(***************************************************************************)

TermVariants == {"cli", "web"}

\* attributes of the user's terminal
Cooked == "cooked"
Cbreak == "cbreak"
Raw    == "raw"

\* the flags enter_raw_mode clears and sets, applied to attributes a
MakeRaw(a) == Raw

NoTermios == "none"

TermStart(v, tty, a) ==
  [variant          |-> v,
   stdin_is_tty     |-> tty,
   attrs            |-> a,          \* what tcgetattr(0) returns now
   before           |-> a,          \* the attributes when the guard was made
   original_termios |-> NoTermios,  \* cli: Option<Termios>
   raw_mode_active  |-> FALSE,      \* web
   prior            |-> NoTermios,  \* web: the mode crossterm keeps for disable_raw_mode
   alive            |-> TRUE,       \* the guard has not been dropped
   calls            |-> 0,
   last             |-> "new",      \* the last method that ran
   res              |-> "Ok",
   failed           |-> FALSE]      \* a tcsetattr on the terminal has failed

TermIdleState == [TermStart("cli", FALSE, Cooked) EXCEPT !.alive = FALSE]

TermIdle == term = TermIdleState

TermFrame == UNCHANGED <<protoVars, ptyVars, fw, det, na, io, sc>>

TermRet(t, op, res) ==
  [t EXCEPT !.calls = @ + 1, !.last = op, !.res = res,
            !.failed = @ \/ (res = "Err" /\ t.stdin_is_tty)]

\* enter_raw_mode; ok: the system calls on the terminal succeed
enter_raw_mode(t, ok) ==
  CASE t.variant = "cli" ->
         \* tcgetattr(0)?; original_termios = Some(termios); tcsetattr(0, TCSANOW, &raw)?
         IF ~t.stdin_is_tty THEN t
         ELSE LET t1 == [t EXCEPT !.original_termios = t.attrs]
              IN  IF ok THEN [t1 EXCEPT !.attrs = MakeRaw(t.attrs)] ELSE t1
    [] t.variant = "web" ->
         \* if stdin_is_tty && !raw_mode_active { enable_raw_mode()?; raw_mode_active = true }
         IF t.stdin_is_tty /\ ~t.raw_mode_active /\ ok
           THEN [t EXCEPT !.prior = IF @ = NoTermios THEN t.attrs ELSE @,
                          !.attrs = MakeRaw(t.attrs), !.raw_mode_active = TRUE]
           ELSE t

EnterResult(t, ok) ==
  CASE t.variant = "cli" -> IF t.stdin_is_tty /\ ok THEN "Ok" ELSE "Err"
    [] t.variant = "web" -> IF t.stdin_is_tty /\ ~t.raw_mode_active /\ ~ok THEN "Err" ELSE "Ok"

\* leave_raw_mode
leave_raw_mode(t, ok) ==
  CASE t.variant = "cli" ->
         \* if let Some(termios) = original_termios.take() { tcsetattr(0, TCSANOW, &termios)? }
         IF t.original_termios = NoTermios THEN t
         ELSE [t EXCEPT !.original_termios = NoTermios,
                        !.attrs = IF ok THEN t.original_termios ELSE @]
    [] t.variant = "web" ->
         \* if raw_mode_active { disable_raw_mode()?; raw_mode_active = false }
         IF t.raw_mode_active /\ ok
           THEN [t EXCEPT !.attrs = IF t.prior = NoTermios THEN @ ELSE t.prior,
                          !.prior = NoTermios, !.raw_mode_active = FALSE]
           ELSE t

LeaveResult(t, ok) ==
  CASE t.variant = "cli" -> IF t.original_termios # NoTermios /\ ~ok THEN "Err" ELSE "Ok"
    [] t.variant = "web" -> IF t.raw_mode_active /\ ~ok THEN "Err" ELSE "Ok"

TermEnter ==
  /\ term.alive
  /\ term.calls < MaxTermCalls
  /\ \E ok \in BOOLEAN :
       term' = TermRet(enter_raw_mode(term, ok), "enter_raw_mode", EnterResult(term, ok))
  /\ TermFrame

TermLeave ==
  /\ term.alive
  /\ term.calls < MaxTermCalls
  /\ \E ok \in BOOLEAN :
       term' = TermRet(leave_raw_mode(term, ok), "leave_raw_mode", LeaveResult(term, ok))
  /\ TermFrame

\* Drop: let _ = self.leave_raw_mode();
TermDrop ==
  /\ term.alive
  /\ \E ok \in BOOLEAN :
       term' = [TermRet(leave_raw_mode(term, ok), "drop", LeaveResult(term, ok))
                  EXCEPT !.alive = FALSE]
  /\ TermFrame

MoreIdle == IoIdle /\ ScIdle /\ TermIdle

ForwarderIdle == fw = FwIdle("crates", NoFile)

\* the parts of the model a scenario does not use
OthersIdle == ForwarderIdle /\ DetIdle /\ NaIdle /\ MoreIdle

(***************************************************************************)
(* Specifications                                                           *)
(***************************************************************************)
ProtoIdle ==
  /\ p_pc = "idle"
  /\ p_type = "StdinData"
  /\ p_payload = <<>>
  /\ p_frame = <<>>
  /\ p_result = DecodeNone
  /\ p_frames = <<>>
  /\ p_decoded = <<>>

\* no session yet; `out` is what the child of a session will write, burst by burst
InitUnborn(out) ==
  /\ manager = [lock |-> Free, sessions |-> {}]
  /\ ps = [s \in Sessions |-> PtySessionInit]
  /\ pty = [s \in Sessions |-> [proc |-> "none", out |-> out, in |-> <<>>]]
  /\ rd = [s \in Sessions |-> [pc |-> "unstarted", data |-> <<>>, callback |-> 0]]
  /\ hist = [s \in Sessions |-> HistInit]
  /\ c = [t \in Callers |-> CallInit]

\* every session as NativePty::new leaves it: registered, the child running,
\* the reader thread at the top of its loop; with callback # 0, a set_on_data
\* call has installed that callback and returned
InitLive(out, callback) ==
  /\ manager = [lock |-> Free, sessions |-> Sessions]
  /\ ps = [s \in Sessions |->
            [PtySessionInit EXCEPT !.state = "live", !.handle = TRUE, !.callback = callback]]
  /\ pty = [s \in Sessions |-> [proc |-> "running", out |-> out, in |-> <<>>]]
  /\ rd = [s \in Sessions |-> [pc |-> "top", data |-> <<>>, callback |-> 0]]
  /\ hist = [s \in Sessions |-> [HistInit EXCEPT !.sinks = callback, !.set_ret = callback]]
  /\ c = [t \in Callers |-> CallInit]

ReaderStep(s) ==
  \/ ReaderTop(s)
  \/ ReaderRead(s)
  \/ ReaderWouldBlock(s)
  \/ ReaderLock(s)
  \/ ReaderLookup(s)
  \/ ReaderCall(s)
  \/ ReaderSend(s)

RegistrySteps(t) == LockManager(t) \/ Lookup(t)
NewSteps(t) == NewSpawn(t) \/ NewInsert(t)
SetOnDataSteps(t) == SetOnDataLock(t) \/ SetOnDataStore(t)
WriteSteps(t) == WriteLock(t) \/ WriteAll(t) \/ WriteFlush(t)
ResizeSteps(t) == ResizeLock(t) \/ ResizeMaster(t)
ReadAllOutputSteps(t) == TryLockManager(t) \/ ReadAllOutputDrain(t)
CheckExitSteps(t) == CheckExitLock(t) \/ CheckExitTryWait(t)
DestroySteps(t) ==
  \/ DestroyRemove(t)
  \/ DestroySignal(t)
  \/ DestroyLock(t)
  \/ DestroyPoll(t)
  \/ DestroyKill(t)
  \/ DestroyWait(t)
  \/ DestroyTake(t)
  \/ DestroyJoin(t)

\* every step of the methods other than NativePty::new
MethodSteps(t) ==
  \/ RegistrySteps(t)
  \/ SetOnDataSteps(t)
  \/ WriteSteps(t)
  \/ ResizeSteps(t)
  \/ KillSignal(t)
  \/ ReadOutputRecv(t)
  \/ ReadAllOutputSteps(t)
  \/ CheckExitSteps(t)
  \/ DestroySteps(t)

(***************************************************************************)
(* Spec: teardown.  One thread only destroys the session (once or twice);   *)
(* the other calls any method, destroy included, before, during and after.  *)
(***************************************************************************)
Closers == {"t1"}
Users   == Callers \ Closers

Init == ProtoIdle /\ OthersIdle /\ InitLive(<<BufSize + 1>>, 0)

Next ==
  \/ \E s \in Sessions : ReaderStep(s) \/ ChildExit(s)
  \/ \E t \in Callers : MethodSteps(t)
  \/ \E t \in Closers, s \in Sessions : Call(t, "destroy", s, "")
  \/ \E t \in Users, s \in Sessions, op \in Ops : Call(t, op, s, "")

Spec == Init /\ [][Next]_vars

(***************************************************************************)
(* FairSpec: the same scenario under fair scheduling.  A thread that can    *)
(* take a step eventually takes one: the callers and the reader thread are  *)
(* operating-system threads.  The child process is under no obligation: it  *)
(* exits when it is killed, or by itself if it ever does.                   *)
(***************************************************************************)
Fairness ==
  /\ \A s \in Sessions : WF_vars(ReaderStep(s))
  /\ \A t \in Callers : WF_vars(MethodSteps(t))

FairSpec == Spec /\ Fairness

(***************************************************************************)
(* SpecQueue: backpressure.  The child writes more chunks than the output   *)
(* channel holds; a data callback is installed; one consumer pulls with     *)
(* read_output and read_all_output.                                         *)
(***************************************************************************)
Consumers == {"t1"}
PullOps == {"read_output", "read_all_output"}

\* what the child writes: bursts one byte short of the read buffer, enough of
\* them to exceed MAX_BYTES_PER_CALL, then one burst that fills the rest of the
\* channel and MaxOver chunks more
SmallBursts == MAX_BYTES_PER_CALL \div BufSize + 1

Bursts ==
  [i \in 1..SmallBursts |-> BufSize - 1]
    \o <<(QueueCap + MaxOver - SmallBursts) * BufSize>>

InitQueue == ProtoIdle /\ OthersIdle /\ InitLive(Bursts, 1)

PullSteps(t) ==
  \/ LockManager(t)
  \/ TryLockManager(t)
  \/ Lookup(t)
  \/ ReadOutputRecv(t)
  \/ ReadAllOutputDrain(t)

NextQueue ==
  \/ \E s \in Sessions : ReaderStep(s)
  \/ \E t \in Consumers : PullSteps(t)
  \/ \E t \in Consumers, s \in Sessions, op \in PullOps : Call(t, op, s, "")

SpecQueue == InitQueue /\ [][NextQueue]_vars

(***************************************************************************)
(* SpecWrite: concurrent use of a live session.  One caller writes and,     *)
(* when it likes, destroys the session; the other writes, resizes, signals, *)
(* pulls output, polls the exit status and installs callbacks; the reader   *)
(* thread runs and the child may exit.                                      *)
(***************************************************************************)
IoOps == Ops \ {"destroy"}
Writers == {"t1"}
WriterOps == {"write", "destroy"}

InitWrite == ProtoIdle /\ OthersIdle /\ InitLive(<<1>>, 0)

NextWrite ==
  \/ \E s \in Sessions : ReaderStep(s) \/ ChildExit(s)
  \/ \E t \in Callers : MethodSteps(t)
  \/ \E t \in Writers, s \in Sessions, op \in WriterOps : Call(t, op, s, "")
  \/ \E t \in Callers \ Writers, s \in Sessions, op \in IoOps : Call(t, op, s, "")

SpecWrite == InitWrite /\ [][NextWrite]_vars

(***************************************************************************)
(* SpecRead: pulling.  Both callers pull with read_output, with and without *)
(* a timeout, while the child writes two chunks and exits when it likes; a  *)
(* data callback is installed.                                              *)
(***************************************************************************)
Timeouts == {"", "timeout"}

InitRead == ProtoIdle /\ OthersIdle /\ InitLive(<<BufSize + 1>>, 1)

ReadSteps(t) == LockManager(t) \/ Lookup(t) \/ ReadOutputRecv(t)

NextRead ==
  \/ \E s \in Sessions : ReaderStep(s) \/ ChildExit(s)
  \/ \E t \in Callers : ReadSteps(t)
  \/ \E t \in Callers, s \in Sessions, arg \in Timeouts : Call(t, "read_output", s, arg)

SpecRead == InitRead /\ [][NextRead]_vars

(***************************************************************************)
(* SpecFanout: the push path under queue pressure and teardown.  A data     *)
(* callback is installed, nobody pulls, the child writes more chunks than   *)
(* the channel holds, one caller destroys the session when it likes and    *)
(* the other installs a new callback when it likes.                         *)
(* The scenario starts when the reader thread has read Backlog full chunks, *)
(* handed each to the callback and queued it: the channel has room for one  *)
(* more chunk and the child has 1 + MaxOver chunks left to write.           *)
(***************************************************************************)
Backlog == QueueCap - 1

InitFanout ==
  /\ ProtoIdle
  /\ OthersIdle
  /\ manager = [lock |-> Free, sessions |-> Sessions]
  /\ ps = [s \in Sessions |->
            [PtySessionInit EXCEPT !.state = "live", !.handle = TRUE, !.callback = 1,
                                   !.output = [i \in 1..Backlog |-> Chunk(i, BufSize)]]]
  /\ pty = [s \in Sessions |->
             [proc |-> "running", out |-> <<(1 + MaxOver) * BufSize>>, in |-> <<>>]]
  /\ rd = [s \in Sessions |-> [pc |-> "top", data |-> <<>>, callback |-> 0]]
  /\ hist = [s \in Sessions |->
              [HistInit EXCEPT !.sinks = 1, !.set_ret = 1, !.owed = Backlog,
                               !.read = [i \in 1..Backlog |-> Chunk(i, BufSize)[1]],
                               !.sink = [i \in 1..Backlog |-> <<1, i>>]]]
  /\ c = [t \in Callers |-> CallInit]

NextFanout ==
  \/ \E s \in Sessions : ReaderStep(s) \/ ChildExit(s)
  \/ \E t \in Closers : LockManager(t) \/ DestroySteps(t)
  \/ \E t \in Closers, s \in Sessions : Call(t, "destroy", s, "")
  \/ \E t \in Users : LockManager(t) \/ Lookup(t) \/ SetOnDataSteps(t)
  \/ \E t \in Users, s \in Sessions : Call(t, "set_on_data", s, "")

SpecFanout == InitFanout /\ [][NextFanout]_vars

(***************************************************************************)
(* SpecNew: session creation.  One caller runs NativePty::new for a child   *)
(* that writes two chunks; the reader thread runs from the moment it is     *)
(* spawned; once the session is live the other caller installs data          *)
(* callbacks with set_on_data.                                              *)
(***************************************************************************)
Creators == {"t1"}

InitNew == ProtoIdle /\ OthersIdle /\ InitUnborn(<<BufSize + 1>>)

NextNew ==
  \/ \E s \in Sessions : ReaderStep(s) \/ ChildExit(s)
  \/ \E t \in Creators : NewSteps(t)
  \/ \E t \in Callers : LockManager(t) \/ Lookup(t) \/ SetOnDataSteps(t)
  \/ \E t \in Creators, s \in Sessions : Call(t, "new", s, "")
  \/ \E t \in Callers \ Creators, s \in Sessions : Call(t, "set_on_data", s, "")

SpecNew == InitNew /\ [][NextNew]_vars

(***************************************************************************)
(* Protocol scenario: an input is chosen, encoded, and the frame decoded.   *)
(***************************************************************************)
MaxPayloadLen == 2
MaxBlocks == 4
ByteVals == {0, 1, 255}

RECURSIVE SeqsUpTo(_, _)
SeqsUpTo(S, n) ==
  IF n = 0 THEN {<<>>}
  ELSE LET shorter == SeqsUpTo(S, n - 1)
       IN  shorter \cup {Append(s, x) : s \in {t \in shorter : Len(t) = n - 1}, x \in S}

SmallPayloads == {Bytes(s) : s \in SeqsUpTo(ByteVals, MaxPayloadLen)}

\* payloads of k * 2^30 bytes and a few more or less, k up to MaxBlocks
HugePayloads ==
  {Cat(Bytes(s), <<Run(0, [hi |-> k, lo |-> 0])>>) :
       s \in SeqsUpTo({1}, 1), k \in 1..MaxBlocks}
  \cup {<<Run(0, [hi |-> k - 1, lo |-> Blk - 1])>> : k \in 1..MaxBlocks}

Payloads == SmallPayloads \cup HugePayloads

InitProto ==
  /\ InitUnborn(<<>>)
  /\ OthersIdle
  /\ p_pc = "input"
  /\ p_type \in MessageType
  /\ p_payload \in Payloads
  /\ p_frame = <<>>
  /\ p_result = DecodeNone
  /\ p_frames = <<>>
  /\ p_decoded = <<>>

Encode ==
  /\ p_pc = "input"
  /\ p_frame' = encode_message(p_type, p_payload)
  /\ p_pc' = "encoded"
  /\ UNCHANGED <<p_type, p_payload, p_result, p_frames, p_decoded, ptyVars, otherVars>>

Decode ==
  /\ p_pc = "encoded"
  /\ p_result' = decode_message(p_frame)
  /\ p_pc' = "decoded"
  /\ UNCHANGED <<p_type, p_payload, p_frame, p_frames, p_decoded, ptyVars, otherVars>>

NextProto == Encode \/ Decode

SpecProto == InitProto /\ [][NextProto]_vars

(***************************************************************************)
(* Decode scenario: decode_message is handed an arbitrary buffer: fewer     *)
(* than five bytes, or a header with any type byte and any length field     *)
(* followed by fewer, exactly as many, or more bytes than the field says.   *)
(***************************************************************************)
MaxRawLen == 4

TypeBytes == {0, 1, 6, 7, 255}

\* length fields 0, 1, 2, 256, 2^30 - 1, 2^30, 2^32 - 1
LengthFields ==
  { <<0, 0, 0, 0>>, <<0, 0, 0, 1>>, <<0, 0, 0, 2>>, <<0, 0, 1, 0>>,
    <<63, 255, 255, 255>>, <<64, 0, 0, 0>>, <<255, 255, 255, 255>> }

Bodies == Payloads \cup {<<Run(7, Sz(256))>>, Cat(<<Run(7, Sz(256))>>, Bytes(<<1>>))}

RawInputs ==
  {Bytes(s) : s \in SeqsUpTo(ByteVals, MaxRawLen)}
  \cup {Cat(Bytes(<<t>> \o l), b) : t \in TypeBytes, l \in LengthFields, b \in Bodies}

InitDecode ==
  /\ InitUnborn(<<>>)
  /\ OthersIdle
  /\ p_pc = "encoded"
  /\ p_type = "StdinData"
  /\ p_payload = <<>>
  /\ p_frame \in RawInputs
  /\ p_result = DecodeNone
  /\ p_frames = <<>>
  /\ p_decoded = <<>>

NextDecode == Decode

SpecDecode == InitDecode /\ [][NextDecode]_vars

(***************************************************************************)
(* Stream scenario: the encodings of a sequence of frames are appended to   *)
(* one buffer, and the buffer is decoded frame by frame, each decode_message*)
(* call starting where the previous one stopped.                            *)
(***************************************************************************)
MaxFrames == 3

\* payloads of 0 .. MaxPayloadLen bytes, of 2^32 - 1 bytes and of 2^32 bytes
StreamPayloads ==
  {Bytes(s) : s \in SeqsUpTo({1}, MaxPayloadLen)}
  \cup {<<Run(0, [hi |-> 3, lo |-> Blk - 1])>>, <<Run(0, [hi |-> 4, lo |-> 0])>>}

Frames == [type : MessageType, payload : StreamPayloads]

RECURSIVE EncodeAll(_)
\* buffer.extend_from_slice(&encode_message(..)) for every frame in turn
EncodeAll(frames) ==
  IF frames = <<>> THEN <<>>
  ELSE Cat(encode_message(frames[1].type, frames[1].payload), EncodeAll(Tail(frames)))

\* p_frame is buffer[offset..], what is left to decode
InitStream ==
  /\ InitUnborn(<<>>)
  /\ OthersIdle
  /\ p_pc = "stream"
  /\ p_type = "StdinData"
  /\ p_payload = <<>>
  /\ p_frames \in SeqsUpTo(Frames, MaxFrames)
  /\ p_frame = EncodeAll(p_frames)
  /\ p_result = DecodeNone
  /\ p_decoded = <<>>

\* one turn of the loop: decode at the offset, keep the frame, advance by
\* the bytes consumed; the loop is left on None and on the error
DecodeNext ==
  /\ p_pc = "stream"
  /\ p_frame # <<>>
  /\ LET r == decode_message(p_frame)
     IN  /\ p_result' = r
         /\ IF r.kind = "Some"
            THEN /\ p_decoded' = Append(p_decoded, [type |-> r.type, payload |-> r.payload])
                 /\ p_frame' = BDrop(p_frame, r.consumed)
                 /\ p_pc' = "stream"
            ELSE /\ p_pc' = "stopped"
                 /\ UNCHANGED <<p_decoded, p_frame>>
  /\ UNCHANGED <<p_type, p_payload, p_frames, ptyVars, otherVars>>

\* `offset < buffer.len()` is false: the loop ends
StreamEnd ==
  /\ p_pc = "stream"
  /\ p_frame = <<>>
  /\ p_pc' = "stopped"
  /\ UNCHANGED <<p_type, p_payload, p_frame, p_result, p_frames, p_decoded, ptyVars, otherVars>>

NextStream == DecodeNext \/ StreamEnd

SpecStream == InitStream /\ [][NextStream]_vars

(***************************************************************************)
(* SpecPipe: one vt-pipe process of either variant, started with or without *)
(* a session directory, runs the forwarder, the title command, or           *)
(* connect_with_retry with up to MaxRetries attempts.                       *)
(***************************************************************************)
Titles == {"new title"}

InitPipe ==
  /\ ProtoIdle
  /\ InitUnborn(<<>>)
  /\ DetIdle
  /\ NaIdle
  /\ MoreIdle
  /\ \E v \in Variants, file \in {NoFile, SessionJson("cmd", "running")} :
       fw = FwIdle(v, file)

NextPipe ==
  \/ \E n \in 0..MaxRetries, d \in Delays : CallConnectWithRetry(n, d)
  \/ CallRun
  \/ \E title \in Titles : CallUpdateSessionTitle(title)
  \/ ConnectSteps
  \/ RunSteps
  \/ TitleSteps

SpecPipe == InitPipe /\ [][NextPipe]_vars

(***************************************************************************)
(* SpecDetect: ActivityDetector::detect on a status line.                   *)
(***************************************************************************)
InitDetect ==
  /\ ProtoIdle
  /\ InitUnborn(<<>>)
  /\ ForwarderIdle
  /\ NaIdle
  /\ MoreIdle
  /\ \E p \in Pieces :
       /\ WellFormed(p)
       /\ det = [pc |-> "input", pieces |-> p, data |-> StatusLine(p), result |-> NoActivity]

NextDetect == Detect

SpecDetect == InitDetect /\ [][NextDetect]_vars

(***************************************************************************)
(* SpecNapi: the napi-addon binding with two sessions.  FairSpecNapi adds   *)
(* that the threads keep running: a reader thread takes its next step, the  *)
(* JavaScript thread gets PTY_MANAGER when it is free again and again.  No  *)
(* fairness for the children: a child may run and stay silent for ever.     *)
(***************************************************************************)
InitNapi ==
  /\ ProtoIdle
  /\ InitUnborn(<<>>)
  /\ ForwarderIdle
  /\ DetIdle
  /\ MoreIdle
  /\ \E nonblock \in BOOLEAN : na = NaInit(nonblock)

NextNapi ==
  \/ \E op \in NaOps, s \in NaSessions : NaCall(op, s)
  \/ NaJsSteps
  \/ \E s \in NaSessions : NaReaderStep(s) \/ NaChildWrite(s) \/ NaChildExit(s)

SpecNapi == InitNapi /\ [][NextNapi]_vars

FairSpecNapi ==
  /\ SpecNapi
  /\ SF_vars(NaJsSteps)
  /\ \A s \in NaSessions : SF_vars(NaReaderStep(s))

(***************************************************************************)
(* C1 - C5  destroy                                                         *)
(***************************************************************************)
AfterDestroyOps ==
  {"write", "resize", "kill", "read_output", "check_exit_status", "set_on_data"}

\* C1: a write, resize, kill, read_output, check_exit_status or set_on_data call
\* that begins after a destroy() of its session has returned gets no further
\* than the registry lookup, does nothing to the PTY, the child or the session,
\* and returns the session-not-found error.
C1_CallsAfterDestroyFail ==
  \A t \in Callers :
    (c[t].late /\ c[t].op \in AfterDestroyOps) =>
      /\ c[t].pc \in {"lock_mgr", "lookup", "done"}
      /\ c[t].eff = <<>>
      /\ c[t].pc = "done" => c[t].res = "SessionNotFound"

\* C1 witness: a write() begun after destroy() returned has come back with the
\* session-not-found error.
C1_Witness ==
  \E t \in Callers :
    /\ c[t].late
    /\ c[t].op = "write"
    /\ c[t].pc = "done"
    /\ c[t].res = "SessionNotFound"

\* C2: a destroy() that begins when the session has already been removed from
\* the registry changes nothing in any of its steps -- the registry's keys, the
\* session's channels, locks and thread handle, the child and the reader thread
\* stay as they are -- and it returns Ok.
C2_SecondDestroyIsNoOp ==
  [][\A t \in Callers :
       (c[t].op = "destroy" /\ c[t].gone /\ c[t].pc # "done" /\ c'[t] # c[t]) =>
         /\ manager'.sessions = manager.sessions
         /\ ps' = ps
         /\ pty' = pty
         /\ rd' = rd
         /\ c'[t].eff = <<>>
         /\ c'[t].pc = "done" => c'[t].res = "Ok"]_vars

\* C2 witness: a destroy() begun after the removal, while the first destroy()
\* is still tearing down, has returned Ok.
C2_Witness ==
  \E t, u \in Callers :
    /\ c[t].op = "destroy" /\ c[t].gone /\ c[t].pc = "done" /\ c[t].res = "Ok"
    /\ c[u].op = "destroy" /\ c[u].pc \in {"d_wait", "d_join"}

\* C3 as claimed: a destroy() call that has removed its session from the
\* registry eventually returns, and returns Ok, whatever try_wait and kill
\* answered and wherever the reader thread is.
C3_DestroyEventuallyReturnsOk ==
  \A t \in Callers :
    (c[t].op = "destroy" /\ c[t].eff # <<>> /\ c[t].pc # "done")
      ~> (c[t].op = "destroy" /\ c[t].pc = "done" /\ c[t].res = "Ok")

\* C4 as claimed: whenever a destroy() call has returned, the reader thread of
\* its session has terminated.
C4_ReaderDoneWhenDestroyReturns ==
  \A t \in Callers :
    (c[t].op = "destroy" /\ c[t].pc = "done") => ReaderGone(c[t].s)

\* C5: once the destroy() call that removed session s has returned, the
\* registry has no entry for s and no step invokes the data callback of s.
C5_NoSinkCallAfterDestroy ==
  [][\A s \in Sessions :
       hist[s].removed =>
         /\ s \notin manager.sessions
         /\ s \notin manager'.sessions
         /\ hist'[s].sink = hist[s].sink]_vars

\* C5 witness: the callback was invoked for a chunk, and the removing destroy()
\* has returned since.
C5_Witness ==
  \E s \in Sessions : hist[s].removed /\ hist[s].sink # <<>>

(***************************************************************************)
(* C6, C7  the output channel                                               *)
(***************************************************************************)
QueueWithinBounds(q) ==
  /\ Len(q) <= QueueCap
  /\ \A i \in 1..Len(q) : DataLen(q[i]) <= BufSize

\* C6: initially and after every step the output channel of a session holds
\* at most 100 chunks, none of them longer than 4096 bytes, and a try_send that
\* finds 100 chunks queued leaves the channel as it is and throws the new
\* chunk away.
C6_QueueBoundedDropsNewest ==
  /\ \A s \in Sessions : QueueWithinBounds(ps[s].output)
  /\ [][\A s \in Sessions :
          /\ QueueWithinBounds(ps'[s].output)
          /\ (rd[s].pc = "send" /\ rd'[s].pc # "send" /\ Len(ps[s].output) = QueueCap)
               => /\ ps'[s].output = ps[s].output
                  /\ \A i \in 1..Len(ps'[s].output) : ps'[s].output[i] # rd[s].data
                  /\ rd'[s].data = <<>>]_vars

\* C6 witness: the channel holds 100 chunks, one of them of 4096 bytes, and a
\* chunk has been dropped.
C6_Witness ==
  \E s \in Sessions :
    /\ Len(ps[s].output) = QueueCap
    /\ \E i \in 1..QueueCap : DataLen(ps[s].output[i]) = BufSize
    /\ hist[s].dropped # <<>>

\* the slices d are whole chunks of `read`, in the order read, none twice
WholeChunksInOrder(d, read) ==
  /\ \A i \in 1..Len(d) : d[i].id \in 1..Len(read) /\ d[i] = read[d[i].id]
  /\ \A i \in 1..(Len(d) - 1) : d[i].id < d[i + 1].id

\* what consumer t has been returned so far, then what it holds in all_data,
\* then what the channel will hand it, each queued Vec<u8> being one chunk
PullOrder(s, t) ==
  hist[s].pulled \o c[t].acc \o [i \in 1..Len(ps[s].output) |-> ps[s].output[i][1]]

\* C7: for the single consumer, the bytes its read_output / read_all_output
\* calls have returned, followed by those still to come from the channel, are
\* whole chunks the reader thread read, in read order, none split, repeated or
\* out of order; chunks may be missing.
C7_PulledChunksWholeInOrder ==
  \A s \in Sessions : \A t \in Consumers :
    WholeChunksInOrder(PullOrder(s, t), hist[s].read)

\* C7 witness: a read_all_output call has returned two chunks or more, a chunk
\* was dropped meanwhile, and a chunk read after the dropped one is queued.
C7_Witness ==
  \E s \in Sessions : \E t \in Consumers :
    /\ c[t].op = "read_all_output" /\ c[t].pc = "done" /\ Len(c[t].out) >= 2
    /\ hist[s].pulled # <<>>
    /\ hist[s].dropped # <<>>
    /\ ps[s].output # <<>>
    /\ ps[s].output[Len(ps[s].output)][1].id > hist[s].dropped[1]

(***************************************************************************)
(* C8, C9  writes and the locks                                             *)
(***************************************************************************)
\* two entries of the PTY's input log that belong to the same write() call
SameCall(a, b) == a[1] = b[1] /\ a[2] = b[2]

\* C8: on the PTY the bytes of one write() call are contiguous and in payload
\* order, a flush follows the whole payload of its call, the calls of one
\* caller appear in the order it issued them, a write() is at the PTY only
\* while it holds the writer lock, and a write() that returned Ok has written
\* its whole payload and flushed.
C8_WritesSerialized ==
  /\ \A s \in Sessions :
       LET log == pty[s].in
       IN  /\ \A i, j \in 1..Len(log) :
                (i < j /\ SameCall(log[i], log[j])) =>
                  /\ \A k \in i..j : SameCall(log[k], log[i])
                  /\ log[i][3] # 0
                  /\ log[j][3] = 0 \/ log[i][3] < log[j][3]
           /\ \A j \in 1..Len(log) :
                log[j][3] = 0 =>
                  /\ j > PayloadLen
                  /\ \A k \in 1..PayloadLen :
                       log[j - PayloadLen + k - 1] = <<log[j][1], log[j][2], k>>
           /\ \A i, j \in 1..Len(log) :
                (i < j /\ log[i][1] = log[j][1]) => log[i][2] <= log[j][2]
  /\ \A t \in Callers :
       /\ c[t].pc \in {"w_write", "w_flush"} => ps[c[t].s].writer = t
       /\ (c[t].op = "write" /\ c[t].pc = "done" /\ c[t].res = "Ok") =>
            \E j \in 1..Len(pty[c[t].s].in) : pty[c[t].s].in[j] = <<t, c[t].n, 0>>

\* C8 witness: a caller is in the middle of its payload while the other waits
\* for the writer lock with its second write(), its first one written whole
\* and flushed.
C8_Witness ==
  \E t, u \in Callers :
    /\ c[t].pc = "w_write" /\ c[t].w = 1
    /\ c[u].pc = "w_lock" /\ c[u].n = 2
    /\ \E j \in 1..Len(pty[c[u].s].in) : pty[c[u].s].in[j] = <<u, 1, 0>>

LockFields == {"master", "writer", "child", "reader_thread", "data_callback"}

\* the mutexes thread t holds
LocksOf(t) ==
  (IF manager.lock = t THEN {"registry"} ELSE {})
    \cup UNION {{f \in LockFields : ps[s][f] = t} : s \in Sessions}

\* the holder of the mutex caller u is about to lock, Free if it waits for none
Awaited(u) ==
  CASE c[u].pc = "lock_mgr" -> manager.lock
    [] c[u].pc = "cb_lock"  -> ps[c[u].s].data_callback
    [] c[u].pc = "m_lock"   -> ps[c[u].s].master
    [] c[u].pc = "c_lock"   -> ps[c[u].s].child
    [] OTHER                -> Free

\* caller t is inside write(), past the registry lookup
InWrite(t) == t \in Callers /\ c[t].pc \in {"w_lock", "w_write", "w_flush"}

UnblockedOps ==
  {"resize", "read_output", "read_all_output", "check_exit_status", "set_on_data"}

\* the statements that write to or read from the PTY, resize it, signal, poll
\* or wait for the child, receive from the channel, or join the reader thread
BlockingPcs ==
  {"w_write", "w_flush", "m_resize", "k_signal", "recv", "recv_wait", "drain", "c_wait",
   "d_signal", "d_poll", "d_kill", "d_wait", "d_join"}

TwoTo32 == [hi |-> 4, lo |-> 0]

RoundTripHolds ==
  p_result = DecodeSome(p_type, p_payload, SzAdd(Sz(5), BLen(p_payload)))

\* C10 as claimed: for every message type and every payload,
\* decode_message(encode_message(type, payload)) is
\* Some((type, payload, 5 + len(payload))).
C10_RoundTripEveryPayload == p_pc = "decoded" => RoundTripHolds

\* C10 amended: the round trip returns Some((type, payload, 5 + len(payload)))
\* for every message type and every payload of fewer than 2^32 bytes, the
\* lengths the 4-byte length field can carry.
C10_RoundTripBelow4GiB ==
  (p_pc = "decoded" /\ SzLess(BLen(p_payload), TwoTo32)) => RoundTripHolds

\* C10 witness: a non-empty payload below 2^32 bytes has been encoded and
\* decoded, one of them of the largest length the field carries.
C10_Witness ==
  /\ p_pc = "decoded"
  /\ p_payload # <<>>
  /\ BLen(p_payload) = [hi |-> 3, lo |-> Blk - 1]
  /\ p_result.kind = "Some"

(***************************************************************************)
(* C11  decode_message on arbitrary input                                   *)
(***************************************************************************)
\* C11: for every input buffer decode_message returns None, or the
\* unknown-message-type error, or Some((type, payload, consumed)) in which
\* consumed = 5 + len(payload) <= len(input), payload is input[5..consumed]
\* and len(payload) is the big-endian number in bytes 1..4 of the input: never
\* a shorter payload, never a byte from beyond the input.
C11_DecodeWholePayloadOrNothing ==
  p_pc = "decoded" =>
    \/ p_result = DecodeNone
    \/ p_result = DecodeErr
    \/ /\ p_result.kind = "Some"
       /\ p_result.type \in MessageType
       /\ p_result.consumed = SzAdd(Sz(5), BLen(p_result.payload))
       /\ SzLeq(p_result.consumed, BLen(p_frame))
       /\ Cat(BTake(p_frame, Sz(5)), p_result.payload) = BTake(p_frame, p_result.consumed)
       /\ SzLess(BLen(p_result.payload), TwoTo32)
       /\ U32ToBeBytes(BLen(p_result.payload))
            = <<BAt(p_frame, 1), BAt(p_frame, 2), BAt(p_frame, 3), BAt(p_frame, 4)>>

\* C11 witness: a buffer holding a frame with a non-empty payload and more
\* bytes after it has been decoded to Some.
C11_Witness ==
  /\ p_pc = "decoded"
  /\ p_frames = <<>>
  /\ p_result.kind = "Some"
  /\ p_result.payload # <<>>
  /\ SzLess(p_result.consumed, BLen(p_frame))

(***************************************************************************)
(* C12  unknown message type                                                *)
(***************************************************************************)
\* C12: on a buffer of at least 5 bytes decode_message fails with the
\* unknown-message-type error exactly when the first byte is outside
\* 0x01..0x06, whatever the declared length and however much of the payload
\* is present; on a buffer of fewer than 5 bytes it returns None whatever the
\* first byte is.
C12_UnknownTypeIffFirstByteOutsideRange ==
  p_pc = "decoded" =>
    IF SzLess(BLen(p_frame), Sz(5))
    THEN p_result = DecodeNone
    ELSE (p_result = DecodeErr) <=> (BAt(p_frame, 0) \notin 1..6)

\* C12 witness: a header with type byte 7 and a declared length larger than
\* the bytes that follow it has been decoded to the error.
C12_Witness ==
  /\ p_pc = "decoded"
  /\ p_result = DecodeErr
  /\ BAt(p_frame, 0) = 7
  /\ SzLess(BLen(p_frame),
            SzAdd(Sz(5), U32FromBeBytes(BAt(p_frame, 1), BAt(p_frame, 2),
                                        BAt(p_frame, 3), BAt(p_frame, 4))))

(***************************************************************************)
(* C13  decoding a stream of frames                                         *)
(***************************************************************************)
StreamDone == p_pc = "stopped"

\* C13 as claimed: for every sequence of frames with valid types, decoding
\* the concatenation of their encodings frame by frame, advancing by the
\* bytes consumed, yields exactly those frames in order and stops with the
\* whole buffer consumed.
C13_StreamYieldsEveryFrame ==
  StreamDone => (p_decoded = p_frames /\ p_frame = <<>>)

\* C13 amended: the same, for frames whose payloads are shorter than 2^32
\* bytes.
C13_StreamYieldsFramesBelow4GiB ==
  (StreamDone /\ \A i \in 1..Len(p_frames) : SzLess(BLen(p_frames[i].payload), TwoTo32))
    => (p_decoded = p_frames /\ p_frame = <<>>)

\* C13 witness: a stream of MaxFrames frames, the second with a payload whose
\* bytes read as a frame type, has been decoded to the end.
C13_Witness ==
  /\ StreamDone
  /\ Len(p_frames) = MaxFrames
  /\ Len(p_decoded) = MaxFrames
  /\ p_frames[2].payload = Bytes(<<1, 1>>)
  /\ p_frames[1].type # p_frames[3].type
  /\ p_frame = <<>>

(***************************************************************************)
(* C14, C15  read_output with and without a timeout                         *)
(***************************************************************************)
\* C14: a read_output call with a timeout on a registered session that got
\* no chunk returns None, not an error: whenever no chunk arrives within the
\* timeout, also after the child has exited and all its output has been read.
C14_TimedReadWithoutChunkReturnsNone ==
  \A t \in Callers :
    ( /\ c[t].op = "read_output" /\ c[t].arg = "timeout" /\ c[t].pc = "done"
      /\ c[t].res \notin {"SessionNotFound", "Some"} )
    => c[t].res = "None"

\* C15: a read_output call without a timeout never waits for data: on an
\* empty queue it returns at once, with None when the reader is alive, and
\* leaves the queue as it is; on a non-empty queue it returns exactly the
\* oldest chunk and removes it.
C15_UntimedReadNeverWaits ==
  /\ [](\A t \in Callers :
          (c[t].op = "read_output" /\ c[t].arg = "") => c[t].pc # "recv_wait")
  /\ [][\A t \in Callers :
          ( /\ c[t].op = "read_output" /\ c[t].arg = ""
            /\ c[t].pc = "recv" /\ c'[t] # c[t] )
          => LET s == c[t].s
             IN  /\ c'[t].pc = "done"
                 /\ IF ps[s].output = <<>>
                    THEN /\ ps'[s].output = <<>>
                         /\ c'[t].out = <<>>
                         /\ c'[t].res = IF ReaderGone(s) THEN "ReaderGone" ELSE "None"
                    ELSE /\ c'[t].res = "Some"
                         /\ c'[t].out = Head(ps[s].output)
                         /\ ps'[s].output = Tail(ps[s].output)]_vars

\* C15 witness: a caller without a timeout was returned the oldest chunk by
\* its first call and None by its second, the reader alive and a chunk still
\* to come.
C15_Witness ==
  \E t \in Callers, s \in Sessions :
    /\ c[t].op = "read_output" /\ c[t].arg = "" /\ c[t].pc = "done"
    /\ c[t].n = 2 /\ c[t].res = "None"
    /\ hist[s].pulled = Chunk(1, BufSize)
    /\ ~ReaderGone(s)
    /\ ps[s].output = <<>>
    /\ pty[s].out # <<>>

(***************************************************************************)
(* C16, C17  read_all_output                                                *)
(***************************************************************************)
\* C16: a single read_all_output call returns at most 65536 bytes, whatever
\* the queue holds.
C16_ReadAllReturnsAtMost64KiB ==
  \A t \in Callers :
    (c[t].op = "read_all_output" /\ c[t].pc = "done")
      => DataLen(c[t].out) <= MAX_BYTES_PER_CALL

\* C17: read_all_output never blocks: each of its statements can always be
\* executed; when another thread holds the registry lock it returns None at
\* once and dequeues nothing; otherwise every chunk it dequeues is the head
\* of the queue, appended to what it has gathered, the rest of the queue
\* staying as it is, and what it returns is what it gathered.
C17_ReadAllNeverBlocks ==
  /\ [](\A t \in Callers :
          (c[t].op = "read_all_output" /\ c[t].pc # "done")
            => ENABLED (TryLockManager(t) \/ Lookup(t) \/ ReadAllOutputDrain(t)))
  /\ [][\A t \in Callers :
          (c[t].op = "read_all_output" /\ c'[t] # c[t] /\ c[t].pc # "done")
          => LET s == c[t].s
             IN  /\ (c[t].pc = "try_lock" /\ manager.lock # Free)
                      => /\ c'[t].pc = "done" /\ c'[t].res = "None"
                         /\ c'[t].out = <<>>
                         /\ ps' = ps /\ manager' = manager
                 /\ c[t].pc = "drain"
                      => \/ /\ ps[s].output # <<>>
                            /\ ps'[s].output = Tail(ps[s].output)
                            /\ c'[t].acc = c[t].acc \o Head(ps[s].output)
                            /\ c'[t].pc = "drain"
                         \/ /\ ps' = ps
                            /\ c'[t].pc = "done"
                            /\ c'[t].out = c[t].acc
                            /\ c'[t].res = IF c[t].acc = <<>> THEN "None" ELSE "Some"
                 /\ c[t].pc # "drain" => ps'[s].output = ps[s].output]_vars

\* C17 witness: a caller whose first read_all_output call returned several
\* chunks had its second call return None because the reader thread held the
\* registry lock, chunks still queued.
C17_Witness ==
  \E t \in Callers, s \in Sessions :
    /\ c[t].op = "read_all_output" /\ c[t].pc = "done" /\ c[t].n = 2
    /\ c[t].res = "None"
    /\ manager.lock = s
    /\ ps[s].output # <<>>
    /\ DataLen(hist[s].pulled) > BufSize

(***************************************************************************)
(* C18  kill after the child has exited                                     *)
(***************************************************************************)
\* C18: kill() on a registered session whose child has exited returns
\* success, before and after check_exit_status has collected the exit status.
C18_KillOfExitedChildSucceeds ==
  \A t \in Callers :
    ( /\ c[t].op = "kill" /\ c[t].pc = "done"
      /\ c[t].res # "SessionNotFound"
      /\ pty[c[t].s].proc # "running" )
    => c[t].res = "Ok"

(***************************************************************************)
(* C19  one data callback at a time                                         *)
(***************************************************************************)
\* C19: once set_on_data(new) has returned, the reader thread never again
\* calls a callback installed before it: every callback call is a call of
\* the callback of the latest set_on_data that has returned.
C19_NoCallOfReplacedSink ==
  [][\A s \in Sessions :
       hist'[s].sink # hist[s].sink
         => hist'[s].sink[Len(hist'[s].sink)][1] = hist[s].set_ret]_vars

(***************************************************************************)
(* C20  every chunk reaches the data callback                               *)
(***************************************************************************)
\* the tsfn.call invocations made for the chunk with this id
SinkCalls(s, id) == {i \in DOMAIN hist[s].sink : hist[s].sink[i][2] = id}

\* the reader thread is through with the chunk with this id
Processed(s, id) ==
  \/ rd[s].data = <<>>
  \/ rd[s].data[1].id > id
  \/ rd[s].data[1].id = id /\ rd[s].pc = "send"

\* C20 as claimed: for every chunk the reader thread read while the session
\* was registered with a callback installed, the callback is called exactly
\* once with that chunk, also when the channel is full and the chunk is
\* dropped from it.
C20_SinkCalledOncePerChunkRead ==
  \A s \in Sessions :
    (hist[s].owed # 0 /\ Processed(s, hist[s].owed))
      => Cardinality(SinkCalls(s, hist[s].owed)) = 1

\* C20 amended: for every chunk the reader thread read, if the session is
\* registered with a callback installed when the reader thread looks the
\* callback up for that chunk, that callback is called exactly once with the
\* chunk before the chunk is sent to the channel or dropped, and no chunk is
\* ever handed to a callback twice.
C20_SinkCalledOncePerChunkLookedUp ==
  /\ [](\A s \in Sessions :
          /\ rd[s].pc = "call" => SinkCalls(s, rd[s].data[1].id) = {}
          /\ (rd[s].pc = "send" /\ rd[s].callback # 0)
               => /\ Cardinality(SinkCalls(s, rd[s].data[1].id)) = 1
                  /\ hist[s].sink[Len(hist[s].sink)] = <<rd[s].callback, rd[s].data[1].id>>)
  /\ [][\A s \in Sessions :
          /\ (rd[s].pc = "lookup" /\ rd'[s].pc # "lookup"
                /\ s \in manager.sessions /\ ps[s].callback # 0)
               => (rd'[s].pc = "call" /\ rd'[s].callback = ps[s].callback
                                     /\ rd'[s].data = rd[s].data)
          /\ (rd[s].pc = "call" /\ rd'[s] # rd[s])
               => (rd'[s].pc = "send" /\ rd'[s].callback = rd[s].callback
                                     /\ rd'[s].data = rd[s].data)
          /\ \/ hist'[s].sink = hist[s].sink
             \/ /\ rd[s].pc = "call"
                /\ SinkCalls(s, rd[s].data[1].id) = {}
                /\ hist'[s].sink
                     = Append(hist[s].sink, <<rd[s].callback, rd[s].data[1].id>>)]_vars

\* C20 witness: a chunk that found the channel full and was dropped has been
\* handed to the callback.
C20_Witness ==
  \E s \in Sessions :
    /\ hist[s].dropped # <<>>
    /\ Len(ps[s].output) = QueueCap
    /\ Cardinality(SinkCalls(s, hist[s].dropped[1])) = 1
    /\ hist[s].owed >= hist[s].dropped[1]

(***************************************************************************)
(* C21, C22, C30  vt-pipe                                                   *)
(***************************************************************************)
\* the connection attempts in a log
Attempts(log) == Cardinality({i \in 1..Len(log) : log[i].ev \in {"ok", "err"}})

\* C21: in either variant Forwarder::run does not return an error because the
\* socket connection failed: with every attempt failed it goes on to raw mode
\* and forwards I/O without a socket client.
C21_RunSurvivesFailedConnect ==
  (fw.op = "run" /\ fw.pc = "done") => ~(fw.res = "Err" /\ fw.err = "connect")

\* C22: in either variant an update_session_title call that has returned Ok
\* has written exactly one frame to the socket, the update-title ControlCmd
\* with the new title, and has not written session.json.
C22_TitleSendsOneFrameAndKeepsJson ==
  (fw.op = "update_session_title" /\ fw.pc = "done" /\ fw.res = "Ok") =>
    /\ fw.sent = <<UpdateTitleFrame(fw.title)>>
    /\ fw.json = fw.json0
    /\ fw.writes = 0

\* C30: connect_with_retry(path, n, d) with n >= 1 makes at most n connection
\* attempts; a successful attempt is the last entry of the log and the call
\* returns the client; every failed attempt but the n-th is followed by one
\* sleep of d ms and the n-th by none; once the n-th attempt has failed the
\* call returns the error.
C30_ConnectWithRetryBounded ==
  /\ [](( fw.op = "connect_with_retry" /\ fw.max_retries >= 1) =>
          LET log == fw.log
              n   == fw.max_retries
          IN  /\ Attempts(log) <= n
              /\ \A i \in 1..Len(log) :
                    /\ log[i].ev = "ok" => i = Len(log) /\ fw.pc = "done" /\ fw.res = "Ok"
                    /\ log[i].ev = "err" /\ i < Len(log) => log[i + 1] = Slept(fw.delay_ms)
                    /\ log[i].ev = "sleep" =>
                          /\ i > 1 /\ log[i - 1].ev = "err"
                          /\ Attempts(SubSeq(log, 1, i)) < n
                          /\ i < Len(log) => log[i + 1].ev \in {"ok", "err"}
              /\ fw.pc = "done" =>
                    /\ fw.res \in {"Ok", "Err"}
                    /\ fw.res = "Ok" => fw.client /\ log[Len(log)] = Connected
                    /\ fw.res = "Err" =>
                          ~fw.client /\ Attempts(log) = n /\ log[Len(log)] = Refused)
  /\ [][( /\ fw.op = "connect_with_retry" /\ fw.max_retries >= 1
          /\ fw.pc # "done"
          /\ Attempts(fw.log) = fw.max_retries
          /\ fw.log[Len(fw.log)] = Refused )
        => (fw'.pc = "done" /\ fw'.res = "Err" /\ fw'.log = fw.log)]_vars

C30_Witness ==
  /\ fw.op = "connect_with_retry" /\ fw.pc = "done" /\ fw.res = "Err"
  /\ fw.max_retries >= 3 /\ fw.delay_ms = RunDelayMs
  /\ Attempts(fw.log) = fw.max_retries
  /\ Len(fw.log) = 2 * fw.max_retries - 1

(***************************************************************************)
(* C23  the details of a detected activity                                  *)
(***************************************************************************)
\* what the claim expects for a status line made of the pieces p
ExpectedDetails(p) ==
  IF p.seg
    THEN p.duration \o <<"s", ",", " ">> \o p.direction \o p.count
         \o (IF p.k THEN <<"k">> ELSE <<>>)
    ELSE p.duration \o <<"s">>

\* C23: detect on a status line reports as details the duration, "s, ", the
\* direction character if there is one and the token count as written in the
\* line, with a "k" only if the line has it; without a token segment the
\* details are the duration and "s".
C23_DetailsReproduceTokenCount ==
  det.pc = "done" =>
    /\ det.result.some
    /\ det.result.details = ExpectedDetails(det.pieces)

(***************************************************************************)
(* C24  the order of destroy's steps                                        *)
(***************************************************************************)
IsPrefix(a, b) == Len(a) <= Len(b) /\ SubSeq(b, 1, Len(a)) = a

\* C24: a destroy() that found the session does its steps in this order:
\* removal from the registry, shutdown signal, try_wait poll of the child,
\* kill (only when the poll said the child is still running), the blocking
\* wait, which leaves the child reaped, and the join of the reader thread.
C24_DestroyStepsInOrder ==
  /\ [](\A t \in Callers :
          c[t].op = "destroy"
            => /\ \/ IsPrefix(c[t].eff, <<"remove", "signal", "poll", "kill", "wait", "join">>)
                  \/ IsPrefix(c[t].eff, <<"remove", "signal", "poll", "wait", "join">>)
               /\ (c[t].pc = "done" /\ c[t].eff # <<>>)
                    => /\ Len(c[t].eff) >= 5
                       /\ c[t].eff[Len(c[t].eff)] = "join" \/ ~ps[c[t].s].handle
               /\ (Len(c[t].eff) >= 1) => c[t].s \notin manager.sessions
               /\ ("wait" \in {c[t].eff[i] : i \in DOMAIN c[t].eff} /\ ~c[t].poll_err)
                    => pty[c[t].s].proc = "reaped"
               /\ (c[t].pc = "done" /\ c[t].eff # <<>>
                     /\ c[t].eff[Len(c[t].eff)] = "join") => ReaderGone(c[t].s))
  /\ [][\A t \in Callers :
          (c[t].op = "destroy" /\ Len(c'[t].eff) > Len(c[t].eff)
             /\ c'[t].eff[Len(c'[t].eff)] = "kill")
          => (c[t].pc = "d_kill" /\ c[t].eff[Len(c[t].eff)] = "poll")]_vars
  /\ [][\A t \in Callers :
          (c[t].pc = "d_poll" /\ c'[t].pc = "d_kill") => pty[c[t].s].proc = "running"]_vars

\* C24 witness: a destroy() has gone through all six steps, the kill included.
C24_Witness ==
  \E t \in Callers :
    /\ c[t].op = "destroy" /\ c[t].pc = "done"
    /\ c[t].eff = <<"remove", "signal", "poll", "kill", "wait", "join">>

(***************************************************************************)
(* C25  the reader thread and the registry insert                           *)
(***************************************************************************)
\* C25: while NativePty::new has not yet inserted the session into the
\* registry the reader thread has read nothing from the PTY and is not in a
\* registry lookup; so no lookup of the reader thread misses the session.
C25_ReaderIdleUntilInserted ==
  \A s \in Sessions :
    ps[s].state = "creating"
      => /\ hist[s].read = <<>>
         /\ rd[s].pc \notin {"lock", "lookup", "call", "send"}

(***************************************************************************)
(* C26, C27  how the reader thread ends                                     *)
(***************************************************************************)
\* C26: when the reader thread's lookup after a read finds no session for
\* its id, the reader thread leaves its loop at once: it neither sends the
\* chunk to the channel nor reads again.
C26_ReaderExitsOnMissedLookup ==
  [][\A s \in Sessions :
       (rd[s].pc = "lookup" /\ rd'[s].pc # "lookup" /\ s \notin manager.sessions)
         => rd'[s].pc = "done"]_vars

\* C27: once the shutdown signal is in the channel the reader thread takes
\* it at its next loop top and ends.  It starts a read only from the loop
\* top and only when no signal is waiting there; a read that was about to
\* start or under way leads, through the fan-out of its chunk if it returned
\* one, back to the loop top or out of the loop, never to another read.
C27_ShutdownHonouredAtNextLoopTop ==
  [][\A s \in Sessions :
       /\ (rd[s].pc = "top" /\ rd'[s].pc # "top")
            => rd'[s].pc = IF ps[s].shutdown > 0 THEN "done" ELSE "read"
       /\ (rd'[s].pc = "read" /\ rd[s].pc # "read")
            => (rd[s].pc = "top" /\ ps[s].shutdown = 0)
       /\ (rd[s].pc = "read" /\ rd'[s].pc # "read")
            => rd'[s].pc \in {"lock", "top", "done"}
       /\ (rd[s].pc \in {"lock", "lookup", "call", "send"} /\ rd'[s].pc # rd[s].pc)
            => \/ rd'[s].pc \in {"top", "done"}
               \/ /\ rd[s].pc = "lock" /\ rd'[s].pc = "lookup"
               \/ /\ rd[s].pc = "lookup" /\ rd'[s].pc \in {"call", "send"}
               \/ /\ rd[s].pc = "call" /\ rd'[s].pc = "send"
       /\ ps'[s].shutdown < ps[s].shutdown => rd'[s].pc = "done"]_vars

\* C27 witness: the signal was sent while a read was under way; the read
\* has returned a chunk, which is being fanned out, and the signal waits.
C27_Witness ==
  \E s \in Sessions :
    /\ ps[s].shutdown > 0
    /\ rd[s].pc = "send"
    /\ rd[s].data # <<>>
    /\ s \notin manager.sessions

(***************************************************************************)
(* C28, C29  napi-addon                                                     *)
(***************************************************************************)
\* C28: a destroy() of the napi-addon binding that begins with the session's
\* reader thread started eventually returns, whatever the child does (also
\* when it keeps running without writing anything).
C28_NapiDestroyReturns ==
  (na.js.op = "destroy" /\ na.js.pc = "clear" /\ na.handle[na.js.s]) ~> (na.js.pc = "idle")

\* C29: a write, resize, kill or check_exit_status call of the napi-addon
\* binding never waits for PTY_MANAGER while the lock is held by a reader
\* thread that is itself waiting for output of a silent child.
C29_NapiLookupNeverWaitsOnReaderIO ==
  \A s \in NaSessions :
    ~( /\ na.js.pc = "lock"
       /\ na.js.op \in {"write", "resize", "kill", "check_exit_status"}
       /\ na.lock = s
       /\ NaReaderWaits(s) )


(***************************************************************************)
(* C37  writes and destroy                                                  *)
(***************************************************************************)
\* C37: once a destroy() of session s has returned, no step of a write() call
\* puts anything into the PTY of s, whenever that call looked the session up.
C37_NoWriteAfterDestroy ==
  [][\A s \in Sessions : hist[s].destroyed => pty'[s].in = pty[s].in]_vars


(***************************************************************************)
(* C36  no deadlock among the locks                                         *)
(***************************************************************************)
\* the callers and the reader threads (a reader thread is named by its session)
Threads == Callers \cup Sessions

\* the thread x waits for: the holder of the mutex x is about to lock, or the
\* reader thread x is joining; Free if x waits for no thread
WaitsFor(x) ==
  IF x \in Callers
    THEN CASE c[x].pc = "lock_mgr" -> manager.lock
           [] c[x].pc = "cb_lock"  -> ps[c[x].s].data_callback
           [] c[x].pc = "m_lock"   -> ps[c[x].s].master
           [] c[x].pc = "w_lock"   -> ps[c[x].s].writer
           [] c[x].pc \in {"c_lock", "d_lock"} -> ps[c[x].s].child
           [] c[x].pc = "d_tlock"  -> ps[c[x].s].reader_thread
           [] c[x].pc = "d_join"   -> IF ReaderGone(c[x].s) THEN Free ELSE c[x].s
           [] OTHER                -> Free
    ELSE CASE rd[x].pc = "lock" -> manager.lock
           [] rd[x].pc = "lookup" /\ x \in manager.sessions -> ps[x].data_callback
           [] OTHER -> Free

RunAtForward(v, cl) ==
  [FwIdle(v, SessionJson("cmd", "running")) EXCEPT
     !.op = "run", !.pc = "forward", !.raw = TRUE, !.client = cl,
     !.json0 = NoFile, !.writes = 1,
     !.max_retries = RunRetries, !.delay_ms = RunDelayMs,
     !.attempt = IF cl THEN 0 ELSE RunRetries - 1,
     !.log = IF cl THEN <<Connected>>
             ELSE [k \in 1..(2 * RunRetries - 1) |->
                     IF k % 2 = 1 THEN Refused ELSE Slept(RunDelayMs)]]

InitForward ==
  /\ ProtoIdle
  /\ InitUnborn(<<>>)
  /\ DetIdle
  /\ NaIdle
  /\ ScIdle
  /\ TermIdle
  /\ \E v \in Variants, cl \in BOOLEAN, nonblock \in BOOLEAN :
       /\ v = "web" => cl
       /\ fw = RunAtForward(v, cl)
       /\ io = IoStart(nonblock)

NextForward ==
  \/ TaskSteps
  \/ WorldSteps
  \/ RunRestore

SpecForward == InitForward /\ [][NextForward]_vars

\* every step of a task is taken if it stays possible, the supervisor keeps
\* reading; nothing is assumed of the user, the window and the child
FairSpecForward ==
  /\ SpecForward
  /\ WF_vars(StdinRead) /\ WF_vars(StdinEof) /\ WF_vars(StdinWritten) /\ WF_vars(StdinQuiet)
  /\ WF_vars(StdoutTop) /\ WF_vars(StdoutRead) /\ WF_vars(StdoutSleep) /\ WF_vars(StdoutWrite)
  /\ WF_vars(ResizeRecv) /\ WF_vars(ResizeQuiet)
  /\ \A task \in Tasks : WF_vars(IoLockClient(task)) /\ WF_vars(IoSend(task))
  /\ WF_vars(SupervisorReads)
  /\ WF_vars(RunRestore)

\* C31: when the first of the three forwarding tasks has completed, the shared
\* shutdown flag is true, so that the other two stop at their next look at it.
C31_FirstCompletionSetsFlag ==
  io.first # "none" => io.shutdown

C33_ChunksForwardedInOrder ==
  io.t["stdout"].pc = "top" =>
    /\ io.out = io.reads
    /\ fw.client => io.sent_stdout = io.reads

\* the frames in the send buffer follow one another whole
WellFramed(ch) ==
  \A k \in 1..Len(ch) :
    /\ (ch[k].part = "head" /\ k < Len(ch)) =>
         ch[k + 1] = [ch[k] EXCEPT !.part = "body"]
    /\ (ch[k].part = "body" /\ k > 1) =>
         ch[k - 1] = [ch[k] EXCEPT !.part = "head"]

\* the last frame on the channel lacks its payload
Truncated(ch) == ch # <<>> /\ ch[Len(ch)].part = "head"

\* C39: the bytes on the supervisor channel are whole frames one after the
\* other; a frame is incomplete only while the task that sends it is still at
\* it, and never after forwarding has stopped.
C39_ChannelHoldsWholeFrames ==
  /\ WellFramed(io.chan)
  /\ Truncated(io.chan) =>
       \E task \in Tasks : /\ io.t[task].pc = "sending"
                           /\ io.t[task].left = <<[io.chan[Len(io.chan)] EXCEPT !.part = "body"]>>


(***************************************************************************)
(* SocketClient::read_message against a peer that writes frames and closes  *)
(***************************************************************************)

InitClient ==
  /\ ProtoIdle
  /\ InitUnborn(<<>>)
  /\ ForwarderIdle
  /\ DetIdle
  /\ NaIdle
  /\ IoIdle
  /\ TermIdle
  /\ \E v \in Variants : sc = ScStart(v)

NextClient ==
  \/ ReadMessageCall
  \/ ReadMessageBuffered
  \/ ReadMessageHeader
  \/ ReadMessagePayload
  \/ \E f \in PeerFrames : PeerWrites(f)
  \/ PeerCloses

SpecClient == InitClient /\ [][NextClient]_vars

\* C35: once a read_message has failed with the unknown-message-type error, no
\* later read_message of either variant returns a frame.
C35_NoFrameAfterUnknownType ==
  \A i, j \in 1..Len(sc.results) :
    (i < j /\ sc.results[i] = UnknownMessageType) => sc.results[j].kind # "Some"

\* the frames the read_message calls have returned, in order
RECURSIVE Returned(_)
Returned(rs) ==
  IF rs = <<>> THEN <<>>
  ELSE IF rs[1].kind = "Some"
       THEN <<[type |-> rs[1].type, payload |-> rs[1].payload]>> \o Returned(Tail(rs))
       ELSE Returned(Tail(rs))

\* a call waits for bytes of the peer
ReadWaits == sc.pc = "read" /\ sc.wire = <<>> /\ ~sc.closed

\* C38: the buffering client returns the frames received whole, in the order
\* of arrival and once each, before it reports the end of the stream, and it
\* does not wait for bytes while a whole frame lies in its buffer.
C38_BufferedFramesAllReturned ==
  (sc.variant = "crates" /\ \A k \in 1..Len(sc.written) : sc.written[k].type \in MessageType) =>
    /\ IsPrefix(Returned(sc.results), sc.written)
    /\ sc.eof => Returned(sc.results) = sc.written
    /\ ReadWaits => decode_message(sc.buffer).kind # "Some"

(***************************************************************************)
(* Terminal: any sequence of enter_raw_mode and leave_raw_mode, then drop   *)
(***************************************************************************)

InitTerm ==
  /\ ProtoIdle
  /\ InitUnborn(<<>>)
  /\ ForwarderIdle
  /\ DetIdle
  /\ NaIdle
  /\ IoIdle
  /\ ScIdle
  /\ \E v \in TermVariants, tty \in BOOLEAN, a \in {Cooked, Cbreak} :
       term = TermStart(v, tty, a)

NextTerm == TermEnter \/ TermLeave \/ TermDrop

SpecTerm == InitTerm /\ [][NextTerm]_vars

\* C34: after a sequence of enter_raw_mode and leave_raw_mode calls that ends
\* with leave_raw_mode or with the drop of the guard, the terminal has the
\* attributes it had before the first enter_raw_mode (no tcsetattr having
\* failed); a second enter_raw_mode does not replace what the first saved.
C34_LeaveRestoresFirstAttributes ==
  (term.last \in {"leave_raw_mode", "drop"} /\ ~term.failed) => term.attrs = term.before


(***************************************************************************)
(* The vt-pipe commands with the supervisor writing the session's logs      *)
(***************************************************************************)

NextStore ==
  \/ NextPipe
  \/ \E file \in {"stdout_log", "stdin_log"} : SupervisorLogs(file)

SpecStore == InitPipe /\ [][NextStore]_vars

\* a step in which FileSessionStore::update_session runs
UpdateSessionStep ==
  /\ fw.variant = "crates"
  /\ fw.pc \in {"restore", "write_json"}
  /\ fw'.pc = "done"

\* C40: FileSessionStore::update_session leaves the stdout and stdin files as
\* they are; it changes session.json only.
C40_UpdateSessionKeepsLogs ==
  [][UpdateSessionStep =>
       fw'.stdout_log = fw.stdout_log /\ fw'.stdin_log = fw.stdin_log]_vars

=============================================================================
